---------------------------- MODULE Spec2Model ----------------------------
(***************************************************************************)
(* A model of hutch-python's object loader (load_conf.load_conf with the   *)
(* helpers it calls) and of the logging filter log_setup.ObjectFilter.     *)
(*                                                                         *)
(* The loader is a straight-line program: one action per statement group   *)
(* of load_conf, in source order, driven by the program counter pc.  The   *)
(* environment (imports, device construction, the operator at the prompt)  *)
(* is the only source of nondeterminism.                                   *)
(*                                                                         *)
(* Further parts model log_setup.log_objects with the root handlers, the   *)
(* camviewer.cfg parser cam_load, the run wrappers of plan_wrappers and    *)
(* the watchdog of ipython_session_timer, each under a specification of    *)
(* its own.                                                                *)
(***************************************************************************)
EXTENDS Integers, Sequences, FiniteSets, TLC

VARIABLES
    conf,        \* the configuration dict handed to load_conf
    hutch_dir,   \* the hutch_dir argument: "None" or "dir"
    pc,          \* position in load_conf
    status,      \* "running" | "returned" | "raised" | "exited"
    loc,         \* load_conf's local variables
    ns,          \* cache.objs: name -> step that put the object there
    attempted,   \* names of the safe_load blocks entered, in order
    failed,      \* names of the safe_load blocks that logged a failure
    warned,      \* keys a "not a valid key" warning was logged for
    nfail,       \* environment failures injected so far
    user,        \* get_user_objs's frame: [i, objs, prompts, answers]
    flt,         \* the ObjectFilter's attributes
    counts,      \* name_to_log_count_1s / _10s / _60s
    noisy_loggers, \* ObjectFilter.noisy_loggers: name -> records hushed
    rec,         \* the record of the last filter() call, as filter() left it
    out,         \* what the last filter() call computed and returned
    emitted,     \* the messages log_setup itself logged, in order
    handlers,    \* logging.root.handlers: name -> [level, stream, flt]
    lastcall,    \* the last log_objects call and the notices it logged
    seen,        \* the last record an object logged, and which handler showed it
    dctx,        \* the debug_context block: [inside, old_level, left]
    files,       \* the camviewer.cfg files on disk: name -> lines
    cpu_count,   \* multiprocessing.cpu_count()
    cam,         \* the last cam_load call and what it returned or raised
    re_state,    \* RE.state of the RunEngine the wrapped plans share
    re_log,      \* what the wrapped plans did with the RunEngine, in order
    now,         \* time.time()
    max_idle_time, \* ipython_session_timer.max_idle_time, the module's global
    timer,       \* the IPythonSessionTimer's attributes
    tpc,         \* position of the timer's thread in _start_session
    wake,        \* when the sleep the thread is in ends
    session,     \* the shell: [exited, events (1 once a cell event was seen)]
    lthreads,    \* the logging threads inside filter(): thread -> [pc, w, tmp, r, show, noise]
    since,       \* records that passed the visibility test since each window was cleared
    af_data,     \* the lines read from the epicsArch file of the experiment
    arch         \* the last check_for_duplicates call and what it returned or raised

filterVars == <<flt, counts, noisy_loggers, rec, out, emitted>>

loadVars == <<conf, hutch_dir, pc, status, loc, ns, attempted, failed,
              warned, nfail, user>>

focusVars == <<handlers, lastcall, seen, dctx>>

camVars == <<files, cpu_count, cam>>

wrapVars == <<re_state, re_log>>

timerVars == <<now, max_idle_time, timer, tpc, wake, session>>

raceVars == <<lthreads, since>>

archVars == <<af_data, arch>>

\* what load_conf leaves alone, and what the filter does
notLoadVars ==
    <<filterVars, focusVars, camVars, wrapVars, timerVars,
      raceVars, archVars>>

notFilterVars ==
    <<loadVars, focusVars, camVars, wrapVars, timerVars,
      raceVars, archVars>>

notFocusVars ==
    <<loadVars, filterVars, camVars, wrapVars, timerVars,
      raceVars, archVars>>

notCamVars ==
    <<loadVars, filterVars, focusVars, wrapVars, timerVars,
      raceVars, archVars>>

notWrapVars ==
    <<loadVars, filterVars, focusVars, camVars, timerVars,
      raceVars, archVars>>

notTimerVars ==
    <<loadVars, filterVars, focusVars, camVars, wrapVars,
      raceVars, archVars>>

\* what neither the filter nor the threads inside it touch
notRaceFilterVars == <<loadVars, focusVars, camVars, wrapVars, timerVars,
      archVars>>

notRaceVars ==
    <<filterVars, loadVars, focusVars, camVars, wrapVars, timerVars,
      archVars>>

notArchVars ==
    <<filterVars, loadVars, focusVars, camVars,
      wrapVars, timerVars, raceVars>>

-----------------------------------------------------------------------------
(* Bounds of the model *)

\* How many load-step bodies the environment makes raise in one run.
MaxFail == 1

\* The largest value a rolling counter of the filter takes.
MaxCount == 3

\* The largest value of a noisy logger's count of hushed records.
MaxHushed == 1

\* How many times the filter's counter thread ticks.
MaxTicks == 3

-----------------------------------------------------------------------------
(* Strings are sequences of one-character strings, so that lower(), `in`,  *)
(* replace() and + do what Python does.                                    *)

Lower(ch) ==
    CASE ch = "T" -> "t"
      [] ch = "S" -> "s"
      [] ch = "X" -> "x"
      [] ch = "Y" -> "y"
      [] ch = "N" -> "n"
      [] OTHER -> ch

StrLower(s) == [i \in 1..Len(s) |-> Lower(s[i])]

\* sub occurs in s starting at index i
OccursAt(sub, s, i) ==
    /\ i + Len(sub) - 1 <= Len(s)
    /\ \A j \in 1..Len(sub) : s[i + j - 1] = sub[j]

\* Python's `sub in s`
StrIn(sub, s) == \E i \in 1..(Len(s) + 1) : OccursAt(sub, s, i)

\* Python's s.replace(sub, '', 1): the first occurrence removed
StrRemoveFirst(s, sub) ==
    IF ~StrIn(sub, s) THEN s
    ELSE LET i == CHOOSE k \in 1..(Len(s) + 1) :
                      /\ OccursAt(sub, s, k)
                      /\ \A m \in 1..(k - 1) : ~OccursAt(sub, s, m)
         IN SubSeq(s, 1, i - 1) \o SubSeq(s, i + Len(sub), Len(s))

-----------------------------------------------------------------------------
(* Configuration values.  A value is [k, v]: k its Python type as far as   *)
(* load_conf tells types apart, v its content.                             *)

Missing == [k |-> "missing", v |-> <<>>]
Str(s) == [k |-> "str", v |-> s]
List(s) == [k |-> "list", v |-> s]
Map(keys) == [k |-> "map", v |-> keys]
Other == [k |-> "other", v |-> <<>>]

NoExtra == [key |-> "none", val |-> Missing]
Extra(key, val) == [key |-> key, val |-> val]

VALID_KEYS == {"hutch", "db", "load", "experiment", "daq_platform"}

HutchTST == Str(<<"T", "S", "T">>)
DbAbs == Str(<<"/", "d">>)
DbRel == Str(<<"d">>)
LoadTwo == List(<<"mod1", "mod2">>)
ExpShort == Str(<<"x", "1">>)
PlatDefault == Map(<<"default">>)

\* an experiment name with the hutch's name inside it, not in front
ExpInside == Str(<<"x", "t", "s", "t", "1">>)

\* The 32 configurations of the optional keys, each present key well formed.
RegularConfs ==
    [hutch : {Missing, HutchTST},
     db : {Missing, DbAbs},
     load : {Missing, LoadTwo},
     experiment : {Missing, ExpShort},
     daq_platform : {Missing, PlatDefault},
     extra : {NoExtra}]

ExtraChoices ==
    {Extra("bananas", Str(<<"x">>)),
     Extra("daq_type", Str(<<"nodaq">>)),
     Extra("daq_type", Str(<<"bogus">>)),
     Extra("daq_type", Str(<<"lcls2">>)),
     Extra("obj_config", Str(<<"/", "o">>))}

\* One departure from a regular configuration (daq_platform left out).
VariedConfs ==
    LET base == {c \in RegularConfs : c.daq_platform = Missing}
    IN  {[c EXCEPT !.hutch = Other] : c \in base}
        \cup {[c EXCEPT !.db = x] : c \in base, x \in {Other, DbRel, Str(<<>>)}}
        \cup {[c EXCEPT !.load = x] : c \in base, x \in {Other, Str(<<"mod1">>)}}
        \cup {[c EXCEPT !.experiment = x] :
                 c \in base,
                 x \in {Other, Str(<<"t", "s", "t", "x", "1">>), ExpInside}}
        \cup {[c EXCEPT !.daq_platform = x] :
                 c \in base, x \in {Other, Map(<<>>), Map(<<"host", "default">>)}}
        \cup {[c EXCEPT !.extra = x] : c \in base, x \in ExtraChoices}

\* test_skip_failures: every key of the wrong type, and an extra one.
SkipFailuresConf ==
    [hutch |-> Other, db |-> Other, load |-> Other, experiment |-> Other,
     daq_platform |-> Missing, extra |-> Extra("bananas", Str(<<"x">>))]

Confs == RegularConfs \cup VariedConfs \cup {SkipFailuresConf}

ConfKeys(c) ==
    {key \in VALID_KEYS : c[key].k # "missing"}
        \cup (IF c.extra.key = "none" THEN {} ELSE {c.extra.key})

HasKey(c, key) == key \in ConfKeys(c)

\* conf[key], for a key HasKey says is there
Get(c, key) == IF key \in VALID_KEYS THEN c[key] ELSE c.extra.val


-----------------------------------------------------------------------------
(* load_conf, lines 168-291: reading the configuration *)

None == [k |-> "none", v |-> <<>>]
Path(s) == [k |-> "path", v |-> s]

\* Path(db) for an absolute db, Path(hutch_dir) / db otherwise.  The result
\* is [exc, val]: exc is the exception the statement raises, or "none".
ResolvePath(val, hd) ==
    IF val.k # "str" THEN [exc |-> "none", val |-> None]
    ELSE IF val.v = <<>> THEN [exc |-> "IndexError", val |-> None]
    ELSE IF val.v[1] = "/" THEN [exc |-> "none", val |-> Path(val.v)]
    ELSE IF hd = "None" THEN [exc |-> "TypeError", val |-> None]
    ELSE [exc |-> "none", val |-> Path(<<hd, "/">> \o val.v)]

ParseHutch(c) ==
    IF ~HasKey(c, "hutch") THEN None
    ELSE IF Get(c, "hutch").k = "str" THEN Str(StrLower(Get(c, "hutch").v))
    ELSE None

\* a db of any type taken for a path
ParseDbUnchecked(c, hd) ==
    IF ~HasKey(c, "db") THEN [exc |-> "none", val |-> None]
    ELSE IF Get(c, "db").k # "str" THEN [exc |-> "none", val |-> Path(<<"?">>)]
    ELSE ResolvePath(Get(c, "db"), hd)

ParseDb(c, hd) ==
    IF ~HasKey(c, "db") THEN [exc |-> "none", val |-> None]
    ELSE ResolvePath(Get(c, "db"), hd)

ParseLoad(c) ==
    IF ~HasKey(c, "load") THEN None
    ELSE IF Get(c, "load").k \in {"str", "list"} THEN Get(c, "load")
    ELSE None

ParseExperiment(c) ==
    IF ~HasKey(c, "experiment") THEN None
    ELSE IF Get(c, "experiment").k = "str" THEN Get(c, "experiment")
    ELSE None

ParseObjConfig(c, hd) ==
    IF ~HasKey(c, "obj_config") THEN [exc |-> "none", val |-> None]
    ELSE ResolvePath(Get(c, "obj_config"), hd)

\* daq_type is a token: the whole string is one element.
ParseDaqType(c) ==
    IF ~HasKey(c, "daq_type") THEN "lcls1"
    ELSE IF Get(c, "daq_type").k = "str" THEN Get(c, "daq_type").v[1]
    ELSE "<not a string>"

\* daq_host stays unbound when the key is missing.
ParseDaqHost(c) == HasKey(c, "daq_host")

\* [exc, default_platform]: platform_info[hostname], then ['default'], then 0.
ParseDaqPlatform(c) ==
    IF ~HasKey(c, "daq_platform") THEN [exc |-> "none", default_platform |-> TRUE]
    ELSE IF Get(c, "daq_platform").k # "map"
         THEN [exc |-> "TypeError", default_platform |-> TRUE]
    ELSE IF \E i \in DOMAIN Get(c, "daq_platform").v :
                Get(c, "daq_platform").v[i] = "host"
         THEN [exc |-> "none", default_platform |-> FALSE]
    ELSE [exc |-> "none", default_platform |-> TRUE]

InitLoc ==
    [hutch |-> None, db |-> None, load |-> None, experiment |-> None,
     obj_config |-> None, daq_type |-> "lcls1", daq_host |-> FALSE,
     default_platform |-> TRUE, RE |-> FALSE, all_objs |-> FALSE,
     full_expname |-> <<>>, raw_expname |-> <<>>, qs_objs |-> {}]

EmptyNs == [x \in {} |-> ""]

EmptyUser ==
    [i |-> 0, objs |-> {}, prompts |-> <<>>, answers |-> <<>>, exit_code |-> 0]

LoadInit ==
    /\ conf \in Confs
    /\ hutch_dir \in {"None", "dir"}
    /\ pc = "parse"
    /\ status = "running"
    /\ loc = InitLoc
    /\ ns = EmptyNs
    /\ attempted = <<>>
    /\ failed = {}
    /\ warned = {}
    /\ nfail = 0
    /\ user = EmptyUser

\* The function ends: by return, by an exception or by sys.exit.
Finish(how) ==
    /\ status' = how
    /\ pc' = "done"

ParseConf ==
    /\ pc = "parse"
    /\ warned' = ConfKeys(conf) \ VALID_KEYS
    /\ LET d == ParseDb(conf, hutch_dir)
           o == ParseObjConfig(conf, hutch_dir)
           p == ParseDaqPlatform(conf)
       IN  IF d.exc # "none" \/ o.exc # "none" \/ p.exc # "none"
           THEN /\ Finish("raised")
                /\ UNCHANGED loc
           ELSE /\ pc' = "debug tools"
                /\ status' = "running"
                /\ loc' = [loc EXCEPT !.hutch = ParseHutch(conf),
                                      !.db = d.val,
                                      !.load = ParseLoad(conf),
                                      !.experiment = ParseExperiment(conf),
                                      !.obj_config = o.val,
                                      !.daq_type = ParseDaqType(conf),
                                      !.daq_host = ParseDaqHost(conf),
                                      !.default_platform = p.default_platform]
    /\ UNCHANGED <<conf, hutch_dir, ns, attempted, failed, nfail, user>>
    /\ UNCHANGED notLoadVars

-----------------------------------------------------------------------------
(* The load steps *)

\* cache(**objs): the names of the first n cache calls of a step, merged
\* into the namespace; a name already there is overwritten.
\* every cache call of the body counted, completed or not
NamesOfAll(segs, n) == UNION {segs[i] : i \in 1..Len(segs)}

Names(segs, n) == UNION {segs[i] : i \in 1..n}

Cached(old, owner, names) ==
    [x \in (DOMAIN old) \cup names |-> IF x \in names THEN owner ELSE old[x]]


\* utils.safe_load: what the with block does with the exception its body
\* ends with.  `except Exception` logs the failure and swallows it; SystemExit
\* is no Exception and goes through.
safe_load(exc) ==
    [leaves |-> IF exc \in {"none", "Exception"} THEN "none" ELSE exc,
     error_logged |-> (exc = "Exception")]

\* How a body ended: the exception (or "none"), how many of its cache calls
\* completed before that, and whether the environment made it raise.
Success(segs) == [exc |-> "none", done |-> Len(segs), env |-> 0]
Raised(n) == [exc |-> "Exception", done |-> n, env |-> 0]
EnvRaised(n) == [exc |-> "Exception", done |-> n, env |-> 1]

\* The ways a body whose statements can raise after `points` cache calls ends.
Outcomes(segs, points) ==
    {Success(segs)}
        \cup (IF nfail < MaxFail THEN {EnvRaised(n) : n \in points} ELSE {})

\* with safe_load(name): <a body that ended as o>
Block(name, o, segs, next, newloc) ==
    LET r == safe_load(o.exc)
    IN  /\ attempted' = Append(attempted, name)
        /\ ns' = Cached(ns, name, Names(segs, o.done))
        /\ failed' = IF r.error_logged THEN failed \cup {name} ELSE failed
        /\ nfail' = nfail + o.env
        /\ loc' = newloc
        /\ IF r.leaves = "none"
           THEN pc' = next /\ status' = "running"
           ELSE Finish(IF r.leaves = "SystemExit" THEN "exited" ELSE "raised")

\* a step whose `if` is false
Skip(next) ==
    /\ pc' = next
    /\ UNCHANGED <<status, loc, ns, attempted, failed, nfail>>

Frame == UNCHANGED <<conf, hutch_dir, warned, user>> /\ UNCHANGED notLoadVars

DebugNames ==
    {"debug_console_level", "debug_mode", "debug_context", "debug_wrapper"}

\* lines 293-295
DebugTools ==
    /\ pc = "debug tools"
    /\ \E o \in Outcomes(<<DebugNames>>, {0}) :
           Block("debug tools", o, <<DebugNames>>, "options", loc)
    /\ Frame

\* lines 297-299; options.load_options caches, then calls set_default_options
Options ==
    /\ pc = "options"
    /\ \E o \in Outcomes(<<{"set_engineering_mode"}>>, {0, 1}) :
           Block("options", o, <<{"set_engineering_mode"}>>, "configure ophyd", loc)
    /\ Frame

\* lines 301-303
ConfigureOphyd ==
    /\ pc = "configure ophyd"
    /\ \E o \in Outcomes(<<>>, {0}) :
           Block("configure ophyd", o, <<>>, "logs", loc)
    /\ Frame

\* lines 305-318: not in a safe_load block
CacheLogs ==
    /\ pc = "logs"
    /\ ns' = Cached(ns, "load_conf", {"logs"})
    /\ pc' = "run engine"
    /\ UNCHANGED <<status, loc, attempted, failed, nfail>>
    /\ Frame

\* lines 320-341: RE is bound by the first statement, cached by the last
RunEngineStep ==
    /\ pc = "run engine"
    /\ \/ Block("run engine", Success(<<{"RE", "bec"}>>), <<{"RE", "bec"}>>,
                "calc utils", [loc EXCEPT !.RE = TRUE])
       \/ /\ nfail < MaxFail
          /\ \E bound \in BOOLEAN :
                 Block("run engine", EnvRaised(0), <<{"RE", "bec"}>>,
                       "calc utils", [loc EXCEPT !.RE = bound])
    /\ Frame

\* lines 343-346
CalcUtils ==
    /\ pc = "calc utils"
    /\ \E o \in Outcomes(<<{"calc"}>>, {0}) :
           Block("calc utils", o, <<{"calc"}>>, "daq", loc)
    /\ Frame

\* lines 348-383: the ways the body ends, by daq_type
DaqOutcomes ==
    IF loc.daq_type \in {"lcls1", "lcls1-sim"}
    THEN IF loc.RE THEN Outcomes(<<{"daq"}>>, {0}) ELSE {Raised(0)}
    ELSE IF loc.daq_type = "lcls2"
    THEN IF loc.daq_host THEN Outcomes(<<{"daq"}>>, {0}) ELSE {Raised(0)}
    ELSE IF loc.daq_type = "nodaq"
    THEN {[exc |-> "none", done |-> 0, env |-> 0]}
    ELSE {Raised(0)}

DaqStep ==
    /\ pc = "daq"
    /\ \E o \in DaqOutcomes :
           Block("daq", o, <<{"daq"}>>, "bluesky plans", loc)
    /\ Frame

PlanNames == {"bp", "bps", "bpp", "re", "register_plan"}

\* lines 385-404: initialize_wrapper_namespaces(RE=RE, ...)
BlueskyPlans ==
    /\ pc = "bluesky plans"
    /\ \E o \in (IF loc.RE THEN Outcomes(<<PlanNames>>, {0}) ELSE {Raised(0)}) :
           Block("bluesky plans", o, <<PlanNames>>, "scan_pvs", loc)
    /\ Frame

\* lines 406-413
ScanPvs ==
    /\ pc = "scan_pvs"
    /\ IF loc.hutch = None
       THEN Skip("elog")
       ELSE \E o \in (IF loc.RE THEN Outcomes(<<{"scan_pvs"}>>, {0})
                                ELSE {Raised(0)}) :
                Block("scan_pvs", o, <<{"scan_pvs"}>>, "elog", loc)
    /\ Frame

\* lines 415-431
Elog ==
    /\ pc = "elog"
    /\ IF loc.hutch = None
       THEN Skip("lcls PVs")
       ELSE \E o \in Outcomes(<<{"elog"}>>, {0}) :
                Block("elog", o, <<{"elog"}>>, "lcls PVs", loc)
    /\ Frame

\* lines 433-436
LclsPvs ==
    /\ pc = "lcls PVs"
    /\ \E o \in Outcomes(<<{"beam_stats", "lcls"}>>, {0}) :
           Block("lcls PVs", o, <<{"beam_stats", "lcls"}>>, "database", loc)
    /\ Frame

\* f"{hutch.lower()}_beampath"
BeampathName(h) ==
    IF h = Str(<<"t", "s", "t">>) THEN "tst_beampath" ELSE "hutch_beampath"

\* lines 438-455: the cache calls of the body, with lightpath there or not
DatabaseSegs(lightpath) ==
    IF lightpath
    THEN <<{"happi_device"}, {BeampathName(loc.hutch)}, {"light_ctrl"}>>
    ELSE <<{"happi_device"}>>

\* get_lightpath and get_happi_objs call hutch.upper(); lc.active_path can
\* raise after the happi objects are cached
Database ==
    /\ pc = "database"
    /\ IF loc.db = None
       THEN Skip("archapp")
       ELSE \E lightpath \in BOOLEAN :
              \E o \in (IF loc.hutch = None THEN {Raised(0)}
                        ELSE Outcomes(DatabaseSegs(lightpath),
                                      IF lightpath THEN {0, 1} ELSE {0})) :
                Block("database", o, DatabaseSegs(lightpath), "archapp", loc)
    /\ Frame

\* lines 457-460
ArchApp ==
    /\ pc = "archapp"
    /\ \E o \in Outcomes(<<{"archive"}>>, {0}) :
           Block("archapp", o, <<{"archive"}>>, "camviewer config", loc)
    /\ Frame

\* lines 462-467
Camviewer ==
    /\ pc = "camviewer config"
    /\ IF loc.hutch = None
       THEN Skip("simulated hardware")
       ELSE \E o \in Outcomes(<<{"camviewer"}>>, {0}) :
                Block("camviewer config", o, <<{"camviewer"}>>,
                      "simulated hardware", loc)
    /\ Frame

\* lines 469-472
SimHardware ==
    /\ pc = "simulated hardware"
    /\ \E o \in Outcomes(<<{"sim"}>>, {0}) :
           Block("simulated hardware", o, <<{"sim"}>>, "auto experiment", loc)
    /\ Frame


\* utils.get_current_experiment: the hutch's active experiment, e.g. tstlr
CurrentExperiment(h) == Str(h.v \o <<"l", "r">>)

\* lines 474-484: the failure is caught here, by try/except
AutoExperiment ==
    /\ pc = "auto experiment"
    /\ pc' = "expname"
    /\ IF loc.experiment = None /\ loc.hutch # None
       THEN \E found \in BOOLEAN :
                loc' = [loc EXCEPT !.experiment =
                            IF found THEN CurrentExperiment(loc.hutch) ELSE None]
       ELSE UNCHANGED loc
    /\ UNCHANGED <<status, ns, attempted, failed, nfail>>
    /\ Frame

\* lines 486-493: full_expname and raw_expname.  `hutch in experiment` is a
\* TypeError when hutch is None.
ExpNames(h, e) ==
    IF h = None THEN [exc |-> "TypeError", full |-> <<>>, raw |-> <<>>]
    ELSE IF StrIn(h.v, e.v)
    THEN [exc |-> "none", full |-> e.v, raw |-> StrRemoveFirst(e.v, h.v)]
    ELSE [exc |-> "none", full |-> h.v \o e.v, raw |-> e.v]

ProcessExpName ==
    /\ pc = "expname"
    /\ IF loc.experiment = None
       THEN /\ pc' = "questionnaire"
            /\ UNCHANGED <<status, loc>>
       ELSE LET n == ExpNames(loc.hutch, loc.experiment)
            IN  IF n.exc # "none"
                THEN /\ Finish("raised")
                     /\ UNCHANGED loc
                ELSE /\ pc' = "questionnaire"
                     /\ status' = "running"
                     /\ loc' = [loc EXCEPT !.full_expname = n.full,
                                           !.raw_expname = n.raw]
    /\ UNCHANGED <<ns, attempted, failed, nfail>>
    /\ Frame

\* lines 495-498 with qs_load.get_qs_objs (lines 107-132): the safe_load
\* block is in get_qs_objs, which returns {} when it failed
Questionnaire ==
    /\ pc = "questionnaire"
    /\ IF loc.experiment = None
       THEN Skip("user modules")
       ELSE \E o \in Outcomes(<<{"inj_x"}>>, {0}) :
                Block("questionnaire", o, <<{"inj_x"}>>, "user modules",
                      [loc EXCEPT !.qs_objs = Names(<<{"inj_x"}>>, o.done)])
    /\ Frame

\* user_load.get_user_objs, lines 35-36: a str is one module
Modules(load) == IF load.k = "str" THEN <<load.v[1]>> ELSE load.v

\* what `from module import *` gives
ModuleNames(m) == IF m = "mod1" THEN {"hey", "just_this"} ELSE {"milk"}

\* what the operator may type at the prompt
Answers == {"y", "Y", "", "n"}

\* maybe_exit's default exit_code
exit_code == 1

\* a maybe_exit that never exits
maybe_exit_continue(response) == "none"

\* utils.maybe_exit: the exception it ends with
maybe_exit(response) ==
    IF Lower(response) \notin {"y", ""} THEN "SystemExit" ELSE "none"

\* lines 500-503: get_user_objs is entered
UserModules ==
    /\ pc = "user modules"
    /\ IF loc.load = None
       THEN pc' = "experiment file" /\ UNCHANGED user
       ELSE pc' = "user module" /\ user' = [EmptyUser EXCEPT !.i = 1]
    /\ UNCHANGED <<status, loc, ns, attempted, failed, nfail>>
    /\ UNCHANGED <<conf, hutch_dir, warned>> /\ UNCHANGED notLoadVars

\* user_load.get_user_objs, lines 39-56: one turn of the loop.  The import
\* works, or it raises and the operator is asked (ask_on_failure is True).
UserModule ==
    /\ pc = "user module"
    /\ user.i <= Len(Modules(loc.load))
    /\ LET m == Modules(loc.load)[user.i]
       IN  \/ /\ Block(m, Success(<<>>), <<>>, "user module", loc)
              /\ user' = [user EXCEPT !.i = @ + 1,
                                      !.objs = @ \cup ModuleNames(m)]
           \/ /\ nfail < MaxFail
              /\ \E response \in Answers :
                   /\ Block(m, [exc |-> maybe_exit(response), done |-> 0, env |-> 1],
                            <<>>, "user module", loc)
                   /\ user' = [user EXCEPT !.i = @ + 1,
                                           !.prompts = Append(@, m),
                                           !.answers = Append(@, response),
                                           !.exit_code =
                                               IF maybe_exit(response) = "none"
                                               THEN @ ELSE exit_code]
    /\ UNCHANGED <<conf, hutch_dir, warned>> /\ UNCHANGED notLoadVars

\* get_user_objs returns, and load_conf caches what it returned
UserModulesReturn ==
    /\ pc = "user module"
    /\ user.i > Len(Modules(loc.load))
    /\ ns' = Cached(ns, "user modules", user.objs)
    /\ pc' = "experiment file"
    /\ UNCHANGED <<status, loc, attempted, failed, nfail>>
    /\ Frame

\* lines 505-511: get_exp_objs(raw_expname), a call with one argument of
\* exp_load.get_exp_objs(proposal, run): a TypeError
ExperimentFile ==
    /\ pc = "experiment file"
    /\ IF loc.experiment = None
       THEN pc' = "default groups" /\ UNCHANGED status
       ELSE Finish("raised")
    /\ UNCHANGED <<loc, ns, attempted, failed, nfail>>
    /\ Frame

\* lines 513-536: the class namespaces that are not empty, then all_objs
GroupSegs(groups) ==
    (IF groups = {} THEN <<>> ELSE <<groups>>) \o <<{"a", "all_objects"}>>

DefaultGroups ==
    /\ pc = "default groups"
    /\ \E groups \in {{}, {"motors", "m"}} :
         \/ Block("default groups", Success(GroupSegs(groups)), GroupSegs(groups),
                  "position presets", [loc EXCEPT !.all_objs = TRUE])
         \/ /\ nfail < MaxFail
            /\ \E n \in 0..(Len(GroupSegs(groups)) - 1) :
                   Block("default groups", EnvRaised(n), GroupSegs(groups),
                         "position presets", loc)
    /\ Frame

\* lines 538-555
Presets ==
    /\ pc = "position presets"
    /\ IF hutch_dir = "None"
       THEN Skip("configure objects")
       ELSE \E o \in Outcomes(<<>>, {0}) :
                Block("position presets", o, <<>>, "configure objects", loc)
    /\ Frame

\* lines 557-559 with obj_config.configure_objects (lines 199-218); all_objs
\* is unbound when the default groups block raised before assigning it
ConfigureObjects ==
    /\ pc = "configure objects"
    /\ IF loc.obj_config = None
       THEN Skip("write file")
       ELSE IF ~loc.all_objs
       THEN /\ Finish("raised")
            /\ UNCHANGED <<loc, ns, attempted, failed, nfail>>
       ELSE \E o \in Outcomes(<<>>, {0}) :
                Block("user object configuration", o, <<>>, "write file", loc)
    /\ Frame

\* lines 561-565: an OSError is logged as a warning
WriteFile ==
    /\ pc = "write file"
    /\ pc' = "return"
    /\ UNCHANGED <<status, loc, ns, attempted, failed, nfail>>
    /\ Frame

\* line 567
Return ==
    /\ pc = "return"
    /\ Finish("returned")
    /\ UNCHANGED <<loc, ns, attempted, failed, nfail>>
    /\ Frame

LoadNext ==
    \/ ParseConf
    \/ DebugTools
    \/ Options
    \/ ConfigureOphyd
    \/ CacheLogs
    \/ RunEngineStep
    \/ CalcUtils
    \/ DaqStep
    \/ BlueskyPlans
    \/ ScanPvs
    \/ Elog
    \/ LclsPvs
    \/ Database
    \/ ArchApp
    \/ Camviewer
    \/ SimHardware
    \/ AutoExperiment
    \/ ProcessExpName
    \/ Questionnaire
    \/ UserModules
    \/ UserModule
    \/ UserModulesReturn
    \/ ExperimentFile
    \/ DefaultGroups
    \/ Presets
    \/ ConfigureObjects
    \/ WriteFile
    \/ Return


\* The loader before load_conf is called.
LoadIdle ==
    /\ conf = SkipFailuresConf
    /\ hutch_dir = "None"
    /\ pc = "parse"
    /\ status = "running"
    /\ loc = InitLoc
    /\ ns = EmptyNs
    /\ attempted = <<>>
    /\ failed = {}
    /\ warned = {}
    /\ nfail = 0
    /\ user = EmptyUser

-----------------------------------------------------------------------------
(* log_setup.ObjectFilter *)

DEBUG == 10
INFO == 20
WARNING == 30

OBJECT_NAME_STANDIN == "-"

\* getattr(record, "ophyd_object_name", None) when the record has none
NoObjectName == "<None>"

\* logging.getLogger(__name__) of log_setup
LogSetupLogger == "hutch_python.log_setup"

\* an ophyd object, and a logger of some other module
ObjectNames == {"a"}
LoggerNames == {"lg"}

\* a logger no filter is configured for by name
OtherLoggerNames == {"lh"}

Sources ==
    ObjectNames \cup LoggerNames \cup OtherLoggerNames \cup {LogSetupLogger}

\* sorted(Sources)
SortedSources == <<"a", "hutch_python.log_setup", "lg", "lh">>

getLevelName(levelno) ==
    CASE levelno = DEBUG -> "DEBUG"
      [] levelno = INFO -> "INFO"
      [] levelno = WARNING -> "WARNING"
      [] OTHER -> "Level"

Record(object_name, name, levelno) ==
    [ophyd_object_name |-> object_name, name |-> name,
     levelno |-> levelno, levelname |-> getLevelName(levelno)]

\* the records the loggers of the session hand to the filter
Records ==
    {Record(o, "ophyd.objects", l) : o \in ObjectNames, l \in {DEBUG, INFO, WARNING}}
        \cup {Record(o, n, INFO) :
                 o \in {NoObjectName, OBJECT_NAME_STANDIN}, n \in LoggerNames}

\* the records of a session with one more logger
MoreRecords ==
    Records \cup {Record(NoObjectName, n, INFO) : n \in OtherLoggerNames}

\* the constructor's noisy_threshold_1s, _10s, _60s
ThresholdArgs == {<<1, 2, 3>>, <<0, 0, 2>>}

ZeroCounts == [n \in Sources |-> 0]

\* a constructor that keeps each threshold as it was passed
NewFilterAsPassed(objects, whitelist_all_level, t, whitelist, blacklist, allow_other) ==
    [objects |-> objects,
     allow_other_messages |-> allow_other,
     whitelist_all_levelno |-> whitelist_all_level,
     levelno |-> WARNING,
     noisy_threshold_1s |-> t[1],
     noisy_threshold_10s |-> t[2],
     noisy_threshold_60s |-> t[3],
     whitelist |-> whitelist,
     blacklist |-> blacklist,
     timer_index |-> 0,
     ticks |-> 0,
     first |-> 0,
     args |-> t]

\* ObjectFilter.__init__, lines 322-349; args is the thresholds as passed
NewFilter(objects, whitelist_all_level, t, whitelist, blacklist, allow_other) ==
    [objects |-> objects,
     allow_other_messages |-> allow_other,
     whitelist_all_levelno |-> whitelist_all_level,
     levelno |-> WARNING,
     noisy_threshold_1s |-> t[1],
     noisy_threshold_10s |-> t[2],
     noisy_threshold_60s |-> t[2],
     whitelist |-> whitelist,
     blacklist |-> blacklist,
     timer_index |-> 0,
     ticks |-> 0,
     first |-> 0,
     args |-> t]

NoRecord == Record(NoObjectName, "", 0)

NoOut == [called |-> FALSE, given |-> NoRecord, name |-> "",
          should_show |-> FALSE, is_noisy |-> FALSE, result |-> FALSE]

FilterInit ==
    /\ \E objects \in SUBSET ObjectNames,
          cutoff \in {DEBUG, WARNING},
          t \in ThresholdArgs,
          whitelist \in SUBSET (ObjectNames \cup LoggerNames),
          blacklist \in SUBSET (ObjectNames \cup LoggerNames),
          allow_other \in BOOLEAN :
            flt = NewFilter(objects, cutoff, t, whitelist, blacklist, allow_other)
    /\ counts = [s1 |-> ZeroCounts, s10 |-> ZeroCounts, s60 |-> ZeroCounts]
    /\ noisy_loggers = EmptyNs
    /\ rec = NoRecord
    /\ out = NoOut
    /\ emitted = <<>>

\* No filter call is looked at.
FilterIdle ==
    /\ flt = NewFilter({}, WARNING, <<1, 2, 3>>, {}, {}, TRUE)
    /\ counts = [s1 |-> ZeroCounts, s10 |-> ZeroCounts, s60 |-> ZeroCounts]
    /\ noisy_loggers = EmptyNs
    /\ rec = NoRecord
    /\ out = NoOut
    /\ emitted = <<>>

\* filter(), line 531: does the record carry an ophyd object's name
HasObjectName(r) ==
    ~(r.ophyd_object_name = NoObjectName
        \/ r.ophyd_object_name = OBJECT_NAME_STANDIN)

\* the number rewritten, the name left as it was
DemotedLevelnoOnly(r) ==
    IF HasObjectName(r) /\ r.levelno = INFO
    THEN [r EXCEPT !.levelno = DEBUG]
    ELSE r

\* filter(), lines 538-542: an object's INFO is made DEBUG, in the record
Demoted(r) ==
    IF HasObjectName(r) /\ r.levelno = INFO
    THEN [r EXCEPT !.levelno = DEBUG, !.levelname = "DEBUG"]
    ELSE r

\* filter(), lines 530-536: the name the counters and the noisy set go by
SourceName(r) == IF HasObjectName(r) THEN r.ophyd_object_name ELSE r.name

\* the visibility test without the blacklist
ShouldShowNoBlacklist(f, r) ==
    IF ~HasObjectName(r)
    THEN f.allow_other_messages
    ELSE \/ Demoted(r).levelno >= f.whitelist_all_levelno
         \/ r.ophyd_object_name \in f.objects

\* filter(), lines 531-547
ShouldShow(f, r) ==
    IF ~HasObjectName(r)
    THEN f.allow_other_messages /\ r.ophyd_object_name \notin f.blacklist
    ELSE /\ \/ Demoted(r).levelno >= f.whitelist_all_levelno
            \/ r.ophyd_object_name \in f.objects
         /\ r.ophyd_object_name \notin f.blacklist

\* the noisy test without the exemptions
IsNoisyNoExemption(f, noisy, r) == SourceName(r) \in DOMAIN noisy

\* filter(), lines 549-553
IsNoisy(f, noisy, r) ==
    /\ SourceName(r) \in DOMAIN noisy
    /\ SourceName(r) \notin f.whitelist
    /\ SourceName(r) \notin f.objects

Bump(c, n) == [c EXCEPT ![n] = @ + 1]

\* d[name] = d.get(name, 0) + 1
BumpNoisy(noisy, n) ==
    [x \in (DOMAIN noisy) \cup {n} |->
        IF x = n THEN (IF n \in DOMAIN noisy THEN noisy[n] ELSE 0) + 1
        ELSE noisy[x]]

\* a filter() that counts the records it returns True for
FilterCallCountsShownOnly(f, st, r) ==
    LET name == SourceName(r)
        show == ShouldShow(f, r)
        noise == IsNoisy(f, st.noisy, r)
    IN  [counts |-> IF show /\ ~noise
                    THEN [s1 |-> Bump(st.counts.s1, name),
                          s10 |-> Bump(st.counts.s10, name),
                          s60 |-> Bump(st.counts.s60, name)]
                    ELSE st.counts,
         noisy |-> IF noise THEN BumpNoisy(st.noisy, name) ELSE st.noisy,
         rec |-> Demoted(r),
         out |-> [called |-> TRUE, given |-> r, name |-> name,
                  should_show |-> show, is_noisy |-> noise,
                  result |-> (show /\ ~noise)]]

\* ObjectFilter.filter, lines 529-564, on the state st = [counts, noisy]:
\* the state after the call, the record as it leaves, and what was decided
FilterCall(f, st, r) ==
    LET name == SourceName(r)
        show == ShouldShow(f, r)
        noise == IsNoisy(f, st.noisy, r)
    IN  [counts |-> IF show
                    THEN [s1 |-> Bump(st.counts.s1, name),
                          s10 |-> Bump(st.counts.s10, name),
                          s60 |-> Bump(st.counts.s60, name)]
                    ELSE st.counts,
         noisy |-> IF noise THEN BumpNoisy(st.noisy, name) ELSE st.noisy,
         rec |-> Demoted(r),
         out |-> [called |-> TRUE, given |-> r, name |-> name,
                  should_show |-> show, is_noisy |-> noise,
                  result |-> (show /\ ~noise)]]

\* The counters stay within the model's bounds.  The logger of log_setup
\* needs none: it carries the hush messages, one for a source at most.
Bounded(st) ==
    /\ \A n \in Sources \ {LogSetupLogger} : st.counts.s60[n] <= MaxCount
    /\ \A n \in DOMAIN st.noisy : st.noisy[n] <= MaxHushed

\* A logger of the session logs one of the records, and the handler asks
\* the filter.
FilterOn(records) ==
    /\ \E r \in records :
         LET st == FilterCall(flt, [counts |-> counts, noisy |-> noisy_loggers], r)
         IN  /\ Bounded(st)
             /\ counts' = st.counts
             /\ noisy_loggers' = st.noisy
             /\ rec' = st.rec
             /\ out' = st.out
    /\ UNCHANGED <<flt, emitted>>
    /\ UNCHANGED notFilterVars

Filter == FilterOn(Records)

FilterMore == FilterOn(MoreRecords)

\* only the 1 s window looked at
OverThreshold1sOnly(f, c) ==
    {n \in Sources : c.s1[n] > f.noisy_threshold_1s /\ f.noisy_threshold_1s > 0}

\* _count_update, lines 363-375: the names over a threshold that is positive
OverThreshold(f, c) ==
    {n \in Sources : c.s1[n] > f.noisy_threshold_1s /\ f.noisy_threshold_1s > 0}
        \cup {n \in Sources :
                 c.s10[n] > f.noisy_threshold_10s /\ f.noisy_threshold_10s > 0}
        \cup {n \in Sources :
                 c.s60[n] > f.noisy_threshold_60s /\ f.noisy_threshold_60s > 0}

\* sorted(names)
Sorted(names) == SelectSeq(SortedSources, LAMBDA n : n \in names)

\* logger.info("Hushing noisy logger %r ...", noisy_logger), line 383
HushRecord == Record(NoObjectName, LogSetupLogger, INFO)

\* a noisy set made anew for the name
SetDefaultAlone(noisy, n) == [x \in {n} |-> 0]

\* d.setdefault(name, 0)
SetDefault(noisy, n) ==
    IF n \in DOMAIN noisy THEN noisy
    ELSE [x \in (DOMAIN noisy) \cup {n} |-> IF x = n THEN 0 ELSE noisy[x]]

\* a loop that announces every name over a threshold, flagged or not
RECURSIVE HushLoopAnnounceAgain(_, _, _)
HushLoopAnnounceAgain(f, names, st) ==
    IF names = <<>> THEN st
    ELSE LET n == Head(names)
         IN  IF n \in f.whitelist
             THEN HushLoopAnnounceAgain(f, Tail(names), st)
             ELSE LET c == FilterCall(f, st, HushRecord)
                  IN  HushLoopAnnounceAgain(f, Tail(names),
                               [counts |-> c.counts,
                                noisy |-> SetDefault(c.noisy, n),
                                emitted |-> Append(st.emitted,
                                    [about |-> n, shown |-> c.out.result])])

\* _count_update, lines 377-390: the loop over the sorted names, on the state
\* st = [counts, noisy, emitted]; the hush message goes through the filter
RECURSIVE HushLoop(_, _, _)
HushLoop(f, names, st) ==
    IF names = <<>> THEN st
    ELSE LET n == Head(names)
         IN  IF n \in f.whitelist \/ n \in DOMAIN st.noisy
             THEN HushLoop(f, Tail(names), st)
             ELSE LET c == FilterCall(f, st, HushRecord)
                  IN  HushLoop(f, Tail(names),
                               [counts |-> c.counts,
                                noisy |-> SetDefault(c.noisy, n),
                                emitted |-> Append(st.emitted,
                                    [about |-> n, shown |-> c.out.result])])

\* every window cleared at every tick
ClearedEveryTick(c, timer_index) ==
    [s1 |-> ZeroCounts, s10 |-> ZeroCounts, s60 |-> ZeroCounts]

\* _count_update, lines 392-397
Cleared(c, timer_index) ==
    [s1 |-> ZeroCounts,
     s10 |-> IF timer_index % 10 = 0 THEN ZeroCounts ELSE c.s10,
     s60 |-> IF timer_index = 0 THEN ZeroCounts ELSE c.s60]

\* _count_update, lines 361-397: what one pass does to the filter
CountUpdate ==
    /\ flt.ticks - flt.first < MaxTicks
    /\ LET st == HushLoop(flt, Sorted(OverThreshold(flt, counts)),
                          [counts |-> counts, noisy |-> noisy_loggers,
                           emitted |-> emitted])
           timer_index == (flt.timer_index + 1) % 60
       IN  /\ Bounded(st)
           /\ noisy_loggers' = st.noisy
           /\ emitted' = st.emitted
           /\ counts' = Cleared(st.counts, timer_index)
           /\ flt' = [flt EXCEPT !.timer_index = timer_index, !.ticks = @ + 1]
    /\ UNCHANGED <<rec, out>>

\* One pass of the counter thread, _count_update_thread (lines 355-359),
\* while no logging thread is inside filter().
Tick ==
    /\ CountUpdate
    /\ UNCHANGED notFilterVars

FilterNext == Filter \/ Tick

\* the ticks a filter has made when it is first looked at
IdleTicks == {0, 8, 58}

\* the thresholds of a filter that hushes a source at its second record
LowThresholds == <<1, 1, 1>>

\* A filter with low thresholds that nothing was logged through for a number
\* of ticks: _count_update (lines 392-397) has only moved _timer_index.
WindowsInit ==
    /\ \E k \in IdleTicks :
          flt = [NewFilter({}, WARNING, LowThresholds, {}, {}, TRUE)
                    EXCEPT !.timer_index = k % 60, !.ticks = k, !.first = k]
    /\ counts = [s1 |-> ZeroCounts, s10 |-> ZeroCounts, s60 |-> ZeroCounts]
    /\ noisy_loggers = EmptyNs
    /\ rec = NoRecord
    /\ out = NoOut
    /\ emitted = <<>>

WindowsNext == FilterMore \/ Tick

-----------------------------------------------------------------------------
(* filter() run by logging threads while the counter thread ticks.  A      *)
(* handler takes its lock for emit() only, after filter() has returned,    *)
(* and ObjectFilter has no lock of its own: d[name] += 1 (lines 556-558)   *)
(* is a read of d[name] and a later store, and another thread may run      *)
(* between the two.                                                        *)

\* the threads that log through the handler
LogThreads == {"t1", "t2"}

\* name_to_log_count_1s, _10s, _60s in the order filter() increments them
Windows == <<"s1", "s10", "s60">>

\* what the threads log: a record the filter shows, and one it does not
RaceRecords ==
    {Record(NoObjectName, "lg", INFO), Record("a", "ophyd.objects", DEBUG)}

IdleThread == [pc |-> "idle", w |-> 0, tmp |-> 0, r |-> NoRecord,
               show |-> FALSE, noise |-> FALSE]

ZeroWindows == [w \in 1..3 |-> ZeroCounts]

\* the filter the threads share, with the thresholds ObjectFilter defaults to
RaceInit ==
    /\ flt = NewFilter({}, WARNING, <<20, 50, 100>>, {}, {}, TRUE)
    /\ counts = [s1 |-> ZeroCounts, s10 |-> ZeroCounts, s60 |-> ZeroCounts]
    /\ noisy_loggers = EmptyNs
    /\ rec = NoRecord
    /\ out = NoOut
    /\ emitted = <<>>
    /\ lthreads = [t \in LogThreads |-> IdleThread]
    /\ since = [lo |-> ZeroWindows, hi |-> ZeroWindows]

RaceIdle ==
    /\ lthreads = [t \in LogThreads |-> IdleThread]
    /\ since = [lo |-> ZeroWindows, hi |-> ZeroWindows]

\* filter(), lines 529-554: a thread enters with a record and computes
\* should_show and is_noisy
FilterBegins(t) ==
    /\ lthreads[t].pc = "idle"
    /\ \E r \in RaceRecords :
         LET name == SourceName(r)
             show == ShouldShow(flt, r)
             noise == IsNoisy(flt, noisy_loggers, r)
         IN  /\ since.hi[3][name] < MaxCount
             /\ lthreads' = [lthreads EXCEPT ![t] =
                    [pc |-> IF show THEN "read" ELSE "return",
                     w |-> IF show THEN 1 ELSE 0, tmp |-> 0, r |-> r,
                     show |-> show, noise |-> noise]]
             /\ since' = IF show
                         THEN [lo |-> [w \in 1..3 |-> Bump(since.lo[w], name)],
                               hi |-> [w \in 1..3 |-> Bump(since.hi[w], name)]]
                         ELSE since
    /\ UNCHANGED filterVars
    /\ UNCHANGED notRaceFilterVars

\* lines 556-558, the first half of d[name] += 1: the thread reads d[name]
ReadsCount(t) ==
    /\ lthreads[t].pc = "read"
    /\ lthreads' = [lthreads EXCEPT ![t].pc = "write",
                       ![t].tmp = counts[Windows[lthreads[t].w]][SourceName(lthreads[t].r)]]
    /\ UNCHANGED <<since, filterVars>>
    /\ UNCHANGED notRaceFilterVars

\* lines 556-558, the second half of d[name] += 1: the thread stores the
\* value it read, plus one, and goes on to the next window
WritesCount(t) ==
    /\ lthreads[t].pc = "write"
    /\ counts' = [counts EXCEPT ![Windows[lthreads[t].w]][SourceName(lthreads[t].r)] =
                      lthreads[t].tmp + 1]
    /\ lthreads' = [lthreads EXCEPT
                       ![t].pc = IF lthreads[t].w < 3 THEN "read" ELSE "return",
                       ![t].w = IF lthreads[t].w < 3 THEN @ + 1 ELSE 0]
    /\ UNCHANGED <<since, flt, noisy_loggers, rec, out, emitted>>
    /\ UNCHANGED notRaceFilterVars

\* lines 560-564: the noisy source's count of hushed records, and the answer
FilterReturns(t) ==
    /\ lthreads[t].pc = "return"
    /\ LET th == lthreads[t]
           name == SourceName(th.r)
       IN  /\ noisy_loggers' = IF th.noise THEN BumpNoisy(noisy_loggers, name)
                               ELSE noisy_loggers
           /\ rec' = Demoted(th.r)
           /\ out' = [called |-> TRUE, given |-> th.r, name |-> name,
                      should_show |-> th.show, is_noisy |-> th.noise,
                      result |-> (th.show /\ ~th.noise)]
    /\ lthreads' = [lthreads EXCEPT ![t] = IdleThread]
    /\ UNCHANGED <<since, flt, counts, emitted>>
    /\ UNCHANGED notRaceFilterVars

\* lines 393-397: is window w cleared by the pass that moves _timer_index
\* to timer_index
ClearedAt(w, timer_index) ==
    \/ w = 1
    \/ w = 2 /\ timer_index % 10 = 0
    \/ w = 3 /\ timer_index = 0

\* the threads that are inside filter() and have yet to store into window w
\* for the source
InFlight(th, w, n) ==
    Cardinality({t \in LogThreads :
                    /\ th[t].pc \in {"read", "write"}
                    /\ th[t].w <= w
                    /\ SourceName(th[t].r) = n})

\* One pass of the counter thread, at whatever point the logging threads
\* are.  A cleared window starts over: no record has passed since, and the
\* records in flight may still be counted in it.
RaceTick ==
    /\ CountUpdate
    /\ LET timer_index == (flt.timer_index + 1) % 60
       IN  since' =
             [lo |-> [w \in 1..3 |-> IF ClearedAt(w, timer_index)
                                     THEN ZeroCounts ELSE since.lo[w]],
              hi |-> [w \in 1..3 |->
                        IF ClearedAt(w, timer_index)
                        THEN [n \in Sources |-> InFlight(lthreads, w, n)]
                        ELSE since.hi[w]]]
    /\ UNCHANGED lthreads
    /\ UNCHANGED notRaceFilterVars

RaceNext ==
    \/ \E t \in LogThreads : FilterBegins(t)
    \/ \E t \in LogThreads : ReadsCount(t)
    \/ \E t \in LogThreads : WritesCount(t)
    \/ \E t \in LogThreads : FilterReturns(t)
    \/ RaceTick

-----------------------------------------------------------------------------
(* log_setup.log_objects, with the handlers of the root logger.  No source  *)
(* is noisy here: the counters and the noisy set are SpecFilter's matter.   *)

\* the ophyd objects of the session
FocusNames == {"a", "b"}

\* the level of the file handler
DebugFileLevel == 5

\* ObjectFilter(): the constructor's defaults
DefaultFilter == NewFilter({}, WARNING, <<20, 50, 100>>, {}, {}, TRUE)

NoCall ==
    [op |-> "none", objects |-> <<>>, level |-> 0, console |-> TRUE,
     notices |-> <<>>]

NoSeen ==
    [given |-> NoRecord, rec |-> NoRecord, console |-> FALSE, debug |-> FALSE,
     after |-> "none"]

\* no debug_context block entered yet
NoCtx == [inside |-> FALSE, old_level |-> 0, left |-> "none"]

\* The console handler and the file handler, a filter on each.  Whether the
\* second one is a logging.StreamHandler is up to the logging configuration.
FocusInit ==
    /\ \E stream \in BOOLEAN :
         handlers =
            [console |-> [level |-> INFO, stream |-> TRUE, flt |-> DefaultFilter],
             debug |-> [level |-> DebugFileLevel, stream |-> stream,
                        flt |-> DefaultFilter]]
    /\ lastcall = NoCall
    /\ seen = NoSeen
    /\ dctx = NoCtx

FocusIdle ==
    /\ handlers =
          [console |-> [level |-> INFO, stream |-> TRUE, flt |-> DefaultFilter],
           debug |-> [level |-> DebugFileLevel, stream |-> TRUE,
                      flt |-> DefaultFilter]]
    /\ lastcall = NoCall
    /\ seen = NoSeen
    /\ dctx = NoCtx

\* a handler that asks its filter about every record, whatever its level
HandleAnyLevel(h, r) ==
    [rec |-> Demoted(r),
     visible |-> ShouldShow(h.flt, r) /\ ~IsNoisy(h.flt, EmptyNs, r)]

\* A handler gets the record: it drops a record below its level, and asks its
\* filter about the others (the filter may rewrite the record).
Handle(h, r) ==
    IF r.levelno >= h.level
    THEN [rec |-> Demoted(r),
          visible |-> ShouldShow(h.flt, r) /\ ~IsNoisy(h.flt, EmptyNs, r)]
    ELSE [rec |-> r, visible |-> FALSE]

\* the record goes to the handlers of the root logger, one after the other
Delivered(hs, r) ==
    LET c == Handle(hs.console, r)
        d == Handle(hs.debug, c.rec)
    IN  [given |-> r, rec |-> d.rec, console |-> c.visible, debug |-> d.visible,
         after |-> lastcall.op]

\* obj.log.log(level, ...): the record of an ophyd object's logger
ObjectRecord(name, levelno) == Record(name, "ophyd.objects", levelno)

\* An ophyd object logs a record.
ObjectLogs ==
    /\ \E x \in FocusNames, l \in {DEBUG, INFO, WARNING} :
           seen' = Delivered(handlers, ObjectRecord(x, l))
    /\ UNCHANGED <<handlers, lastcall, dctx>>
    /\ UNCHANGED notFocusVars

\* log_setup.set_console_level
SetConsoleLevel ==
    /\ \E l \in {DEBUG, INFO} :
           handlers' = [handlers EXCEPT !.console.level = l]
    /\ UNCHANGED <<lastcall, seen, dctx>>
    /\ UNCHANGED notFocusVars

Max(S) == CHOOSE x \in S : \A y \in S : y <= x

\* the sequences that list each element of S once
Orders(S) ==
    {q \in UNION {[1..n -> S] : n \in {Cardinality(S)}} :
        \A i, j \in DOMAIN q : i # j => q[i] # q[j]}

\* log_objects, lines 638-645: the handlers whose filter is set
Affected(hs, console) ==
    {h \in {"console", "debug"} : ~(hs[h].stream /\ ~console)}

\* log_objects, line 642: the objects of one filter only
OldObjectsOfOne(hs, console) ==
    IF Affected(hs, console) = {} THEN {}
    ELSE hs[CHOOSE h \in Affected(hs, console) : TRUE].flt.objects

\* log_objects, lines 637-642: old_objects, over the filters that are set
OldObjects(hs, console) ==
    UNION {hs[h].flt.objects : h \in Affected(hs, console)}

\* log_objects, lines 638-645: the handlers after the loop
Focused(hs, objs, level, console) ==
    [h \in {"console", "debug"} |->
        IF h \in Affected(hs, console)
        THEN [hs[h] EXCEPT !.flt.objects = objs, !.flt.levelno = level]
        ELSE hs[h]]

\* log_objects, line 645
NotificationLevel(hs, console) ==
    Max({0} \cup {hs[h].level : h \in Affected(hs, console)})

\* one notice: the log call, and whether the console showed it
Notice(hs, kind, obj, levelno) ==
    [kind |-> kind, obj |-> obj, levelno |-> levelno,
     console |-> Delivered(hs, ObjectRecord(obj, levelno)).console]

\* log_objects(*objects, level=..., console=...), lines 614-659
LogObjects(op, objects, level, console) ==
    LET hs == Focused(handlers, {objects[i] : i \in DOMAIN objects}, level, console)
        old == OldObjects(handlers, console)
        dropped == old \ {objects[i] : i \in DOMAIN objects}
        lvl == NotificationLevel(handlers, console)
    IN  /\ handlers' = hs
        /\ \E stops \in Orders(dropped) :
             lastcall' =
                [op |-> op, objects |-> objects, level |-> level,
                 console |-> console,
                 notices |->
                    [i \in DOMAIN objects |->
                        Notice(hs, "Recording", objects[i], lvl)]
                    \o [i \in DOMAIN stops |->
                        Notice(hs, "No longer recording", stops[i], WARNING)]]
        /\ UNCHANGED <<seen, dctx>>
        /\ UNCHANGED notFocusVars

\* the objects of a call, none of them twice
ObjectTuples == UNION {Orders(S) : S \in SUBSET FocusNames}

LogObjectsCall ==
    \E objects \in ObjectTuples, level \in {DEBUG, WARNING}, console \in BOOLEAN :
        LogObjects("log_objects", objects, level, console)

\* log_objects_off, lines 607-611
LogObjectsOff == LogObjects("log_objects_off", <<>>, WARNING, TRUE)

FocusNext == ObjectLogs \/ SetConsoleLevel \/ LogObjectsCall \/ LogObjectsOff

\* debug_context, lines 805-818, up to its yield: the level is remembered and
\* debug_mode(True) sets the console to DEBUG.  debug_wrapper (lines 822-838)
\* runs its function as the block.
EnterDebugContext ==
    /\ ~dctx.inside
    /\ dctx' = [inside |-> TRUE, old_level |-> handlers.console.level,
                left |-> "none"]
    /\ handlers' = [handlers EXCEPT !.console.level = DEBUG]
    /\ UNCHANGED <<lastcall, seen>>
    /\ UNCHANGED notFocusVars

\* a debug_context that sets the old level however the block is left
RestoredAlways(hs, ctx, raised) ==
    [hs EXCEPT !.console.level = ctx.old_level]

\* debug_context after its yield, line 819: the statement is reached when the
\* block returns; an exception of the block is thrown into the generator at
\* the yield and leaves it there.
Restored(hs, ctx, raised) ==
    IF raised THEN hs ELSE [hs EXCEPT !.console.level = ctx.old_level]

\* the block of debug_context is left, by its end or by an exception
LeaveDebugContext ==
    /\ dctx.inside
    /\ \E raised \in BOOLEAN :
          /\ handlers' = Restored(handlers, dctx, raised)
          /\ dctx' = [dctx EXCEPT !.inside = FALSE,
                                  !.left = IF raised THEN "raised"
                                           ELSE "returned"]
    /\ UNCHANGED <<lastcall, seen>>
    /\ UNCHANGED notFocusVars

DebugNext ==
    ObjectLogs \/ SetConsoleLevel \/ EnterDebugContext \/ LeaveDebugContext

-----------------------------------------------------------------------------
(* cam_load: the camviewer.cfg parser.  A file is a sequence of lines, a   *)
(* line a Python string; the parser strips and splits the strings itself.  *)

\* The longest file read_camviewer_cfg is called on, in lines.
MaxLines == 2

\* The longest file that is only reached through an include, in lines.
MaxIncLines == 1

\* The interpreter's recursion limit, in nested interpret_cfg calls.
RecursionLimit == 3

\* os.cpu_count() of the machines the session runs on
CpuCounts == {1, 2}

IsSpace(ch) == ch \in {" ", "\n"}

RECURSIVE LStrip(_)
LStrip(s) == IF s # <<>> /\ IsSpace(Head(s)) THEN LStrip(Tail(s)) ELSE s

RECURSIVE RStrip(_)
RStrip(s) ==
    IF s # <<>> /\ IsSpace(s[Len(s)]) THEN RStrip(SubSeq(s, 1, Len(s) - 1))
    ELSE s

\* Python's s.strip()
Strip(s) == RStrip(LStrip(s))

\* Python's s.split(sep), sep one character
RECURSIVE Split(_, _)
Split(s, sep) ==
    IF \A i \in 1..Len(s) : s[i] # sep THEN <<s>>
    ELSE LET i == CHOOSE k \in 1..Len(s) :
                      /\ s[k] = sep
                      /\ \A m \in 1..(k - 1) : s[m] # sep
         IN <<SubSeq(s, 1, i - 1)>> \o Split(SubSeq(s, i + 1, Len(s)), sep)

\* Python's sep.join(parts)
RECURSIVE Join(_, _)
Join(parts, sep) ==
    IF parts = <<>> THEN <<>>
    ELSE IF Len(parts) = 1 THEN parts[1]
    ELSE parts[1] \o <<sep>> \o Join(Tail(parts), sep)

\* Python's s.startswith(p)
StartsWith(s, p) == OccursAt(p, s, 1)

\* Python's s.replace(a, b), a and b one character
StrReplaceChar(s, a, b) == [i \in 1..Len(s) |-> IF s[i] = a THEN b ELSE s[i]]

sGE == <<"G", "E">>
sInclude == <<"i", "n", "c", "l", "u", "d", "e">>

FileF == <<"f">>
FileG == <<"g">>
FileNames == {FileF, FileG}

\* a supported detector, prefix P:
LineP1 == <<"G", "E", ",", "P", ":", "1", ",", "e", ",", "c">>

\* another supported detector of the same prefix P:, with blanks
LineP2 == <<" ", "G", "E", " ", ",", " ", "P", ":", "2", " ", ",", " ", "e", " ", ",", " ", "d", "\n">>

\* a supported detector whose prefix is given after ';'
LineQ == <<"G", "E", ",", "i", ";", "Q", ",", "e", ",", "X", " ", "y">>

\* a camera type there is no class for, prefix P:
LineBadType == <<"X", "X", ",", "P", ":", "3", ",", "e", ",", "x">>

\* no pv field
LineNoPv == <<"G", "E", ",", ",", "e", ",", "m">>

\* no name field
LineNoName == <<"G", "E", ",", "R", ":", "1", ",", "e", ",">>

\* too few fields
LineShort == <<"G", "E", ",", "T", ":", "1">>

\* a supported detector whose constructor raises
LineDown == <<"G", "E", ",", "S", ":", "1", ",", "e", ",", "k">>

\* a comment
LineComment == <<"#", "c">>

\* a blank line
LineBlank == <<" ", "\n">>

\* include of the file f
LineIncF == <<"i", "n", "c", "l", "u", "d", "e", " ", "f">>

\* include of the file g
LineIncG == <<"i", "n", "c", "l", "u", "d", "e", " ", "g", "\n">>

\* include of a file that does not exist
LineIncH == <<"i", "n", "c", "l", "u", "d", "e", " ", "h">>

\* include without a path
LineIncBare == <<"i", "n", "c", "l", "u", "d", "e">>

CamLines ==
    {LineP1, LineP2, LineQ, LineBadType,
     LineNoPv, LineNoName, LineShort, LineDown,
     LineComment, LineBlank, LineIncF, LineIncG,
     LineIncH, LineIncBare}

\* The prefixes PCDSAreaDetector cannot be made for (its constructor raises).
IocDown == {<<"S", ":">>}

SeqsUpTo(S, n) == UNION {[1..k -> S] : k \in 0..n}

EmptyObjs == [n \in {} |-> <<>>]

NoCam == [op |-> "none", filename |-> <<>>, info |-> <<>>, objs |-> EmptyObjs,
          raised |-> "None"]

\* The files on disk and the machine, before anything is read.
CamInit ==
    /\ files \in [FileNames -> SeqsUpTo(CamLines, MaxLines)]
    /\ Len(files[FileG]) <= MaxIncLines
    /\ cpu_count \in CpuCounts
    /\ cam = NoCam

CamIdle ==
    /\ files = [n \in FileNames |-> <<>>]
    /\ cpu_count = 2
    /\ cam = NoCam

\* get_det_prefix, lines 217-237
get_det_prefix(pv_info) ==
    LET pv == Split(pv_info, ";")
        detector_prefix ==
            IF Len(pv) >= 2 THEN pv[2]
            ELSE LET p == Split(pv[1], ":")
                 IN Join(SubSeq(p, 1, Len(p) - 1), ":")
    IN detector_prefix \o <<":">>

\* line.strip().split(',') with every part stripped, lines 83 and 88-89
Parts(raw) ==
    LET parts == Split(Strip(raw), ",")
    IN [j \in 1..Len(parts) |-> Strip(parts[j])]

RECURSIVE interpret_cfg(_, _, _, _)

\* One turn of interpret_lines's loop, lines 82-105.  st is the frame:
\* info, the pvnames set shared with the callers, and the exception under way.
LineStep(fs, raw, st, depth) ==
    LET line == Strip(raw)
        parts == Parts(raw)
    IN IF line = <<>> \/ line[1] = "#" THEN st
       ELSE IF StartsWith(parts[1], sInclude) THEN
            LET words == Split(parts[1], " ")
            IN IF Len(words) < 2 THEN st
               ELSE LET inc == interpret_cfg(fs, words[2], st.pvnames, depth + 1)
                    IN IF inc.raised # "None"
                       THEN [st EXCEPT !.pvnames = inc.pvnames,
                                       !.raised = inc.raised]
                       ELSE [st EXCEPT !.info = @ \o inc.info,
                                       !.pvnames = inc.pvnames]
       ELSE IF Len(parts) > 1 THEN
            LET pvname == get_det_prefix(parts[2])
            IN IF pvname \notin st.pvnames
               THEN [st EXCEPT !.info = Append(@, parts),
                               !.pvnames = @ \cup {pvname}]
               ELSE st
       ELSE st

RECURSIVE LinesLoop(_, _, _, _, _)
LinesLoop(fs, lines, i, st, depth) ==
    IF i > Len(lines) \/ st.raised # "None" THEN st
    ELSE LinesLoop(fs, lines, i + 1, LineStep(fs, lines[i], st, depth), depth)

\* interpret_lines, lines 60-107
interpret_lines(fs, lines, pvnames, depth) ==
    LinesLoop(fs, lines, 1,
              [info |-> <<>>, pvnames |-> pvnames, raised |-> "None"], depth)

\* interpret_cfg with a set of its own for every file
interpret_cfg_own_set(fs, filename, pvnames, depth) ==
    IF depth > RecursionLimit
    THEN [info |-> <<>>, pvnames |-> pvnames, raised |-> "RecursionError"]
    ELSE IF filename \notin DOMAIN fs
    THEN [info |-> <<>>, pvnames |-> pvnames, raised |-> "FileNotFoundError"]
    ELSE [interpret_lines(fs, fs[filename], {}, depth)
              EXCEPT !.pvnames = pvnames]

\* interpret_cfg, lines 38-57: open() raises for a file that is not there, and
\* the call itself when the interpreter's stack is used up.
interpret_cfg(fs, filename, pvnames, depth) ==
    IF depth > RecursionLimit
    THEN [info |-> <<>>, pvnames |-> pvnames, raised |-> "RecursionError"]
    ELSE IF filename \notin DOMAIN fs
    THEN [info |-> <<>>, pvnames |-> pvnames, raised |-> "FileNotFoundError"]
    ELSE interpret_lines(fs, fs[filename], pvnames, depth)

\* build_cam, lines 180-214: the exception it raises, or the detector made
build_cam(info_part) ==
    IF Len(info_part) < 4
    THEN [exc |-> "TypeError", prefix |-> <<>>, name |-> <<>>]
    ELSE LET cam_type == info_part[1]
             pv_info == info_part[2]
             name == info_part[4]
         IN IF ~StartsWith(cam_type, sGE)
            THEN [exc |-> "UnsupportedConfig", prefix |-> <<>>, name |-> <<>>]
            ELSE IF pv_info = <<>> \/ name = <<>>
            THEN [exc |-> "MalformedConfig", prefix |-> <<>>, name |-> <<>>]
            ELSE IF get_det_prefix(pv_info) \in IocDown
            THEN [exc |-> "Exception", prefix |-> <<>>, name |-> <<>>]
            ELSE [exc |-> "None",
                  prefix |-> get_det_prefix(pv_info),
                  name |-> StrLower(StrReplaceChar(name, " ", "_"))]

\* build_and_log, lines 138-177: every exception of build_cam ends in one of
\* the four handlers, and the function returns None
build_and_log(info_part) ==
    LET r == build_cam(info_part)
    IN IF r.exc = "None"
       THEN [none |-> FALSE, prefix |-> r.prefix, name |-> r.name]
       ELSE [none |-> TRUE, prefix |-> <<>>, name |-> <<>>]

\* the loop of lines 132-134 over the first n elements of obj_list
RECURSIVE ObjsOf(_, _)
ObjsOf(obj_list, n) ==
    IF n = 0 THEN EmptyObjs
    ELSE IF obj_list[n].none THEN ObjsOf(obj_list, n - 1)
    ELSE (obj_list[n].name :> obj_list[n].prefix) @@ ObjsOf(obj_list, n - 1)

\* load_cams, lines 110-135.  ThreadPool(0) raises ValueError.
load_cams(info, cpus) ==
    IF cpus - 1 < 1 THEN [objs |-> EmptyObjs, raised |-> "ValueError"]
    ELSE LET obj_list == [i \in 1..Len(info) |-> build_and_log(info[i])]
         IN [objs |-> ObjsOf(obj_list, Len(obj_list)), raised |-> "None"]

\* read_camviewer_cfg, lines 20-35
ReadCamviewerCfg ==
    /\ \E filename \in FileNames :
         LET i == interpret_cfg(files, filename, {}, 1)
             l == load_cams(i.info, cpu_count)
         IN cam' = IF i.raised # "None"
                   THEN [op |-> "read_camviewer_cfg", filename |-> filename,
                         info |-> <<>>, objs |-> EmptyObjs,
                         raised |-> i.raised]
                   ELSE [op |-> "read_camviewer_cfg", filename |-> filename,
                         info |-> i.info, objs |-> l.objs, raised |-> l.raised]
    /\ UNCHANGED <<files, cpu_count>>
    /\ UNCHANGED notCamVars

\* interpret_lines on the lines of a file, as the tests call it
InterpretLines ==
    /\ \E filename \in FileNames :
         LET i == interpret_lines(files, files[filename], {}, 1)
         IN cam' = [op |-> "interpret_lines", filename |-> filename,
                    info |-> IF i.raised = "None" THEN i.info ELSE <<>>,
                    objs |-> EmptyObjs, raised |-> i.raised]
    /\ UNCHANGED <<files, cpu_count>>
    /\ UNCHANGED notCamVars

CamNext == ReadCamviewerCfg \/ InterpretLines

-----------------------------------------------------------------------------
(* plan_wrappers.RunEngineWrapper and run_engine_wrapper.run_engine_wrapper: *)
(* the wrapped plan's __call__, and the RunEngine it drives.               *)

\* How many calls the wrappers make on the RunEngine in one run.
MaxReCalls == 5

\* RE.state, as far as the wrapper tells states apart
ReStates == {"idle", "running", "paused"}

WrapInit ==
    /\ re_state = "idle"
    /\ re_log = <<>>

WrapIdle ==
    /\ re_state = "idle"
    /\ re_log = <<>>

\* a wrapper that goes straight to RE(plan) when the engine is not running
CallsOnReNoStop(state) ==
    IF state = "running" THEN <<[op |-> "raise", state |-> state]>>
    ELSE <<[op |-> "RE", state |-> state]>>

\* What __call__ (plan_wrappers.py 83-96) and run_scan (run_engine_wrapper.py
\* 48-61) do with the engine found in the given state, in order: the call
\* made or the exception raised, and the engine's state at that moment.
\* RE.stop() leaves the engine idle.
CallsOnRe(state) ==
    IF state = "running" THEN <<[op |-> "raise", state |-> state]>>
    ELSE IF state # "idle"
    THEN <<[op |-> "stop", state |-> state], [op |-> "RE", state |-> "idle"]>>
    ELSE <<[op |-> "RE", state |-> state]>>

\* A wrapped plan is called: at the prompt, or from inside a running plan.
\* Raising leaves the engine as it is; RE(plan) sets it running.
RunWrapped ==
    /\ Len(re_log) + Len(CallsOnRe(re_state)) <= MaxReCalls
    /\ re_log' = re_log \o CallsOnRe(re_state)
    /\ re_state' = IF re_state = "running" THEN re_state ELSE "running"
    /\ UNCHANGED notWrapVars

\* The plan in progress ends, or an exception ends it: RE(...) returns or
\* raises, and the engine is idle again.
PlanEnds ==
    /\ re_state = "running"
    /\ re_state' = "idle"
    /\ UNCHANGED re_log
    /\ UNCHANGED notWrapVars

\* The plan pauses or is interrupted with ctrl+c: RE(...) raises
\* RunEngineInterrupted, which the wrapper prints, and the engine is paused.
PlanInterrupted ==
    /\ re_state = "running"
    /\ re_state' = "paused"
    /\ UNCHANGED re_log
    /\ UNCHANGED notWrapVars

\* The operator cleans up at the prompt: RE.resume(), or one of RE.abort(),
\* RE.stop(), RE.halt().
OperatorCleansUp ==
    /\ re_state = "paused"
    /\ re_state' \in {"running", "idle"}
    /\ UNCHANGED re_log
    /\ UNCHANGED notWrapVars

WrapNext == RunWrapped \/ PlanEnds \/ PlanInterrupted \/ OperatorCleansUp

-----------------------------------------------------------------------------
(* ipython_session_timer: the watchdog thread of IPythonSessionTimer, the  *)
(* cell events of the shell it watches, and the clock.  Times are seconds. *)

\* The clock advances by this much at a time.
TimeStep == 6

\* The longest the session is followed, in seconds after its start.
MaxElapsed == 48

\* time.time() when the session starts
StartTime == 1000

\* max_idle_time, line 13
DefaultMaxIdleTime == 172800

\* the session_timer values configure_timeout is called with
TimeoutArgs == {0, 60}

\* the sleeps of lines 86 and 56
InnerSleep == 6
TimerMaxIdleTime == 30

NoTimer == [curr_time |-> 0, max_idle_time |-> 0, last_active_time |-> 0,
            idle_time |-> 0, user_active |-> FALSE]

TimerInit ==
    /\ now = StartTime
    /\ max_idle_time = DefaultMaxIdleTime
    /\ timer = NoTimer
    /\ tpc = "unloaded"
    /\ wake = 0
    /\ session = [exited |-> FALSE, events |-> 0]

TimerIdle ==
    /\ now = StartTime
    /\ max_idle_time = DefaultMaxIdleTime
    /\ timer = NoTimer
    /\ tpc = "unloaded"
    /\ wake = 0
    /\ session = [exited |-> FALSE, events |-> 0]

\* configure_timeout, lines 16-19
ConfigureTimeout ==
    /\ tpc = "unloaded"
    /\ \E session_timer \in TimeoutArgs :
          max_idle_time' = IF session_timer > 0 THEN session_timer
                           ELSE max_idle_time
    /\ UNCHANGED <<now, timer, tpc, wake, session>>
    /\ UNCHANGED notTimerVars

\* IPythonSessionTimer.__init__, lines 53-62
NewTimer ==
    [curr_time |-> 0, max_idle_time |-> TimerMaxIdleTime,
     last_active_time |-> 0, idle_time |-> 0, user_active |-> FALSE]

\* load_ipython_extension, lines 100-115: the timer is made and its thread
\* started
LoadIpythonExtension ==
    /\ tpc = "unloaded"
    /\ timer' = NewTimer
    /\ tpc' = "while"
    /\ UNCHANGED <<now, max_idle_time, wake, session>>
    /\ UNCHANGED notTimerVars

\* _set_user_active, lines 64-67, on the shell's pre_run_cell
PreRunCell ==
    /\ tpc # "unloaded"
    /\ ~session.exited
    /\ ~timer.user_active
    /\ timer' = [timer EXCEPT !.user_active = TRUE, !.last_active_time = now]
    /\ session' = [session EXCEPT !.events = 1]
    /\ UNCHANGED <<now, max_idle_time, tpc, wake>>
    /\ UNCHANGED notTimerVars

\* _set_user_inactive, lines 69-72, on the shell's post_run_cell
PostRunCell ==
    /\ tpc # "unloaded"
    /\ ~session.exited
    /\ timer.user_active
    /\ timer' = [timer EXCEPT !.user_active = FALSE, !.last_active_time = now]
    /\ session' = [session EXCEPT !.events = 1]
    /\ UNCHANGED <<now, max_idle_time, tpc, wake>>
    /\ UNCHANGED notTimerVars

\* time passes
Advance ==
    /\ now + TimeStep <= StartTime + MaxElapsed
    /\ now' = now + TimeStep
    /\ UNCHANGED <<max_idle_time, timer, tpc, wake, session>>
    /\ UNCHANGED notTimerVars

\* line 83: the outer while's condition
WhileIdle ==
    /\ tpc = "while"
    /\ tpc' = IF timer.idle_time < timer.max_idle_time THEN "active" ELSE "close"
    /\ UNCHANGED <<now, max_idle_time, timer, wake, session>>
    /\ UNCHANGED notTimerVars

\* line 85: the inner while's condition, and the sleep either branch starts
\* (line 86, or line 89 through _timer)
WhileActive ==
    /\ tpc = "active"
    /\ IF timer.user_active
       THEN tpc' = "sleep_active" /\ wake' = now + InnerSleep
       ELSE tpc' = "sleep_idle"
            /\ wake' = now + (timer.max_idle_time - timer.idle_time)
    /\ UNCHANGED <<now, max_idle_time, timer, session>>
    /\ UNCHANGED notTimerVars

\* lines 86-87: the sleep of the inner loop is over
WakeActive ==
    /\ tpc = "sleep_active"
    /\ now >= wake
    /\ timer' = [timer EXCEPT !.idle_time = 0]
    /\ tpc' = "active"
    /\ UNCHANGED <<now, max_idle_time, wake, session>>
    /\ UNCHANGED notTimerVars

\* lines 89-90: the sleep of _timer is over, then _get_time_passed
WakeIdle ==
    /\ tpc = "sleep_idle"
    /\ now >= wake
    /\ timer' = [timer EXCEPT !.curr_time = now,
                              !.idle_time = now - timer.last_active_time]
    /\ tpc' = "while"
    /\ UNCHANGED <<now, max_idle_time, wake, session>>
    /\ UNCHANGED notTimerVars

\* lines 93-97: the session is closed
CloseSession ==
    /\ tpc = "close"
    /\ session' = [session EXCEPT !.exited = TRUE]
    /\ tpc' = "done"
    /\ UNCHANGED <<now, max_idle_time, timer, wake>>
    /\ UNCHANGED notTimerVars

TimerNext ==
    \/ ConfigureTimeout \/ LoadIpythonExtension \/ PreRunCell \/ PostRunCell
    \/ Advance \/ WhileIdle \/ WhileActive \/ WakeActive \/ WakeIdle
    \/ CloseSession

-----------------------------------------------------------------------------
(* epics_arch.check_for_duplicates: the aliases and PVs of the             *)
(* questionnaire merged into those of the epicsArch file.  A dict is the   *)
(* sequence of its <<key, value>> items in insertion order.                *)

\* Python's s.replace(a, ""), a one character
StrRemoveChar(s, a) == SelectSeq(s, LAMBDA c : c # a)

\* the characters of the aliases and PVs, in the order of their code points
CharOrder == <<"\n", " ", "*", "1", "2", "P", "a", "b", "c">>

Ord(c) == CHOOSE i \in 1..Len(CharOrder) : CharOrder[i] = c

\* Python's a < b on strings
RECURSIVE StrLess(_, _)
StrLess(a, b) ==
    IF b = <<>> THEN FALSE
    ELSE IF a = <<>> THEN TRUE
    ELSE IF Head(a) # Head(b) THEN Ord(Head(a)) < Ord(Head(b))
    ELSE StrLess(Tail(a), Tail(b))

InDict(d, k) == \E i \in 1..Len(d) : d[i][1] = k

\* d[k] = v
DictSet(d, k, v) ==
    IF InDict(d, k)
    THEN [i \in 1..Len(d) |-> IF d[i][1] = k THEN <<k, v>> ELSE d[i]]
    ELSE Append(d, <<k, v>>)

\* del d[k]
DictDel(d, k) == SelectSeq(d, LAMBDA item : item[1] # k)

\* dict(items) of the first n items
RECURSIVE DictOf(_, _)
DictOf(items, n) ==
    IF n = 0 THEN <<>>
    ELSE DictSet(DictOf(items, n - 1), items[n][1], items[n][2])

\* zip(data[::2], data[1::2]), lines 348 and 358
Zip(data) == [i \in 1..(Len(data) \div 2) |-> <<data[2 * i - 1], data[2 * i]>>]

\* lines 349-352 and 359-362: blanks and newlines taken out of the keys, then
\* out of the values
CleanDict(d) ==
    LET k1 == DictOf([i \in 1..Len(d) |->
                        <<StrRemoveChar(d[i][1], " "), d[i][2]>>], Len(d))
        k2 == DictOf([i \in 1..Len(k1) |->
                        <<StrRemoveChar(k1[i][1], "\n"), k1[i][2]>>], Len(k1))
    IN [i \in 1..Len(k2) |->
          <<k2[i][1], StrRemoveChar(StrRemoveChar(k2[i][2], " "), "\n")>>]

\* dict(sorted(d.items())): the keys of a dict differ, so the keys decide
SortedDict(d) ==
    LET Rank(i) == 1 + Cardinality({j \in 1..Len(d) : StrLess(d[j][1], d[i][1])})
    IN [p \in 1..Len(d) |-> d[CHOOSE i \in 1..Len(d) : Rank(i) = p]]

\* get_key, lines 453-457: the first key of the value, or None
get_key(val, my_dict) ==
    IF \E i \in 1..Len(my_dict) : my_dict[i][2] = val
    THEN [none |-> FALSE,
          key |-> my_dict[CHOOSE i \in 1..Len(my_dict) :
                             /\ my_dict[i][2] = val
                             /\ \A j \in 1..(i - 1) : my_dict[j][2] # val][1]]
    ELSE [none |-> TRUE, key |-> <<>>]

\* lines 371-375: the PVs of the questionnaire that have two aliases or more
pvDuplicate(qs) ==
    {qs[i][2] : i \in {k \in 1..Len(qs) :
                         \E j \in 1..Len(qs) : j # k /\ qs[j][2] = qs[k][2]}}

\* lines 396-407: the first n items of the questionnaire put into the
\* arch file's dict
RECURSIVE UpdateLoop(_, _, _)
UpdateLoop(qs, af, n) ==
    IF n = 0 THEN af
    ELSE LET before == UpdateLoop(qs, af, n - 1)
             k == qs[n][1]
             val == qs[n][2]
             foundKey == get_key(val, before)
         IN IF InDict(before, k) THEN DictSet(before, k, val)
            ELSE IF ~foundKey.none /\ foundKey.key # <<>>
            THEN DictSet(DictDel(before, foundKey.key), k, val)
            ELSE before

\* [x for item in d.items() for x in item]
RECURSIVE Flatten(_)
Flatten(d) ==
    IF d = <<>> THEN <<>> ELSE <<d[1][1], d[1][2]>> \o Flatten(Tail(d))

\* check_for_duplicates, lines 321-412: what it raises and what it returns
check_for_duplicates(qs_data, given) ==
    LET sorted_qsDict == SortedDict(CleanDict(DictOf(Zip(qs_data), Len(Zip(qs_data)))))
        sorted_afDict ==
            IF Len(given) > 0
            THEN SortedDict(CleanDict(DictOf(Zip(given), Len(Zip(given)))))
            ELSE <<>>
    IN IF pvDuplicate(sorted_qsDict) # {}
       THEN [raised |-> "ValueError", returned |-> <<>>]
       ELSE IF Len(given) = 0
       THEN [raised |-> "None", returned |-> Flatten(sorted_qsDict)]
       ELSE [raised |-> "None",
             returned |-> Flatten(SortedDict(
                 UpdateLoop(sorted_qsDict, sorted_afDict, Len(sorted_qsDict))))]

\* How many alias/PV pairs the questionnaire and the arch file hold.
MaxPairs == 2

\* the aliases and PVs of the questionnaire, as get_questionnaire_data makes
\* them, and those of the arch file, as readlines gives them
QsAliases == {<<"*", " ", "a">>, <<"*", " ", "b">>, <<"*", "a">>}
QsPVs == {<<"P", "1">>, <<"P", "2">>}
AfAliases == {<<"*", " ", "a", "\n">>, <<"*", " ", "b", "\n">>,
              <<"*", " ", "c", "\n">>}
AfPVs == {<<"P", "1", "\n">>, <<"P", "2", "\n">>, <<"P", " ", "1", "\n">>}

\* the lists of up to MaxPairs alias/PV pairs
DataLists(aliases, pvs) ==
    UNION {{Flatten(items) : items \in [1..n -> aliases \X pvs]} : n \in 0..MaxPairs}

NoArch == [op |-> "none", qs_data |-> <<>>, af_data |-> <<>>,
           raised |-> "None", returned |-> <<>>]

\* the arch file of the experiment, whole or cut after an alias
ArchInit ==
    /\ af_data \in DataLists(AfAliases, AfPVs)
                     \cup {<<a>> : a \in AfAliases}
    /\ arch = NoArch

ArchIdle ==
    /\ af_data = <<>>
    /\ arch = NoArch

\* update_file (lines 543 and 549) and print_dry_run (line 447): the
\* questionnaire's data checked against the arch file's, or against no file
CheckForDuplicates ==
    /\ \E qs_data \in DataLists(QsAliases, QsPVs), given \in {af_data, <<>>} :
         LET c == check_for_duplicates(qs_data, given)
         IN arch' = [op |-> "check_for_duplicates", qs_data |-> qs_data,
                     af_data |-> given, raised |-> c.raised,
                     returned |-> c.returned]
    /\ UNCHANGED af_data
    /\ UNCHANGED notArchVars

ArchNext == CheckForDuplicates

vars == <<conf, hutch_dir, pc, status, loc, ns, attempted, failed, warned,
          nfail, user, flt, counts, noisy_loggers, rec, out, emitted,
          handlers, lastcall, seen, dctx, files, cpu_count, cam, re_state, re_log,
          now, max_idle_time, timer, tpc, wake, session,
          lthreads, since,
          af_data, arch>>

InitLoad ==
    LoadInit /\ FilterIdle /\ FocusIdle /\ CamIdle /\ WrapIdle /\ TimerIdle
    /\ RaceIdle /\ ArchIdle

InitFilter ==
    FilterInit /\ LoadIdle /\ FocusIdle /\ CamIdle /\ WrapIdle /\ TimerIdle
    /\ RaceIdle /\ ArchIdle

InitWindows ==
    WindowsInit /\ LoadIdle /\ FocusIdle /\ CamIdle /\ WrapIdle /\ TimerIdle
    /\ RaceIdle /\ ArchIdle

InitFocus ==
    FocusInit /\ LoadIdle /\ FilterIdle /\ CamIdle /\ WrapIdle /\ TimerIdle
    /\ RaceIdle /\ ArchIdle

InitCam ==
    CamInit /\ LoadIdle /\ FilterIdle /\ FocusIdle /\ WrapIdle /\ TimerIdle
    /\ RaceIdle /\ ArchIdle

InitWrap ==
    WrapInit /\ LoadIdle /\ FilterIdle /\ FocusIdle /\ CamIdle /\ TimerIdle
    /\ RaceIdle /\ ArchIdle

InitTimer ==
    TimerInit /\ LoadIdle /\ FilterIdle /\ FocusIdle /\ CamIdle /\ WrapIdle
    /\ RaceIdle /\ ArchIdle

InitRace ==
    RaceInit /\ LoadIdle /\ FocusIdle /\ CamIdle /\ WrapIdle /\ TimerIdle
    /\ ArchIdle

InitArch ==
    ArchInit /\ LoadIdle /\ FilterIdle /\ FocusIdle /\ CamIdle /\ WrapIdle
    /\ TimerIdle /\ RaceIdle

\* a low-threshold ObjectFilter from its tick 0, 8 or 58 on
SpecWindows == InitWindows /\ [][WindowsNext]_vars

\* logging threads inside filter() while the counter thread ticks
SpecRace == InitRace /\ [][RaceNext]_vars

\* check_for_duplicates on a questionnaire and an arch file
SpecArch == InitArch /\ [][ArchNext]_vars

\* debug_context blocks, set_console_level and the objects' records
SpecDebug == InitFocus /\ [][DebugNext]_vars

\* log_objects, set_console_level and the objects' records, in any order
SpecFocus == InitFocus /\ [][FocusNext]_vars

\* wrapped plans called at the prompt and from plans, on one RunEngine
SpecWrap == InitWrap /\ [][WrapNext]_vars

\* the watchdog thread, the shell's cell events and the clock, interleaved
SpecTimer == InitTimer /\ [][TimerNext]_vars

\* the cam_load entry points on every pair of files of the family
SpecCam == InitCam /\ [][CamNext]_vars

\* load_conf on every configuration of the family
SpecLoad == InitLoad /\ [][LoadNext]_vars

\* an ObjectFilter under every construction of the family
SpecFilter == InitFilter /\ [][FilterNext]_vars


-----------------------------------------------------------------------------
(* The loader's claims, checked under SpecLoad *)

Range(seq) == {seq[i] : i \in DOMAIN seq}

\* the names a step put in the namespace and still owns
OwnedBy(step) == {x \in DOMAIN ns : ns[x] = step}

\* C1: an exception of a safe_load block's body never makes load_conf raise,
\* so that the steps after the failing one are attempted: once a block has
\* failed, load_conf does not end by an exception.  Stated for the runs with
\* no experiment, which do not reach lines 488 and 507 (see C2).
C1_FailureNeverPropagates ==
    (failed # {} /\ loc.experiment = None) => status # "raised"

\* C2: with any subset of hutch, db, load, experiment, daq_platform missing
\* and the other keys well formed, load_conf returns and the namespace is not
\* empty.  Stated for the runs in which the environment makes nothing fail.
C2_MissingKeysReturn ==
    (conf \in RegularConfs /\ nfail = 0 /\ pc = "done")
        => (status = "returned" /\ DOMAIN ns # {})

\* What every run without an unrecognized key shows when it returns and the
\* environment made nothing fail: the daq step succeeded and put daq in the
\* namespace, and no user object configuration was attempted.
LoadsAsWithoutExtraKey ==
    /\ "daq" \in Range(attempted)
    /\ "daq" \notin failed
    /\ "daq" \in DOMAIN ns
    /\ "user object configuration" \notin Range(attempted)

\* C3: a key other than hutch, db, load, experiment, daq_platform is only
\* warned about: the steps attempted and the namespace returned are those of
\* the configuration without the key.
C3_UnrecognizedKeyIgnored ==
    (status = "returned" /\ nfail = 0 /\ conf.extra.key \notin VALID_KEYS)
        => (conf.extra.key \in warned \cup {"none"} /\ LoadsAsWithoutExtraKey)

CachedBeforeRaise(step) ==
    CASE step = "options" -> {"set_engineering_mode"}
      [] step = "database" -> {"happi_device"}
      [] step = "default groups" -> {"motors", "m"}
      [] OTHER -> {}

\* the last name each of these steps caches
CachedLast(step) ==
    CASE step = "database" -> {"light_ctrl"}
      [] step = "default groups" -> {"a", "all_objects"}
      [] step = "run engine" -> {"RE", "bec"}
      [] OTHER -> {}

ValidDb(c) == c.db.k = "str"

ValidHutch(c) == c.hutch.k = "str"

\* the step at position `at` is entered iff `valid`, and when it is not
\* entered nothing is attempted and nothing is logged as failed
AttemptedIff(at, valid) ==
    pc = at =>
        IF valid
        THEN attempted' = Append(attempted, at)
        ELSE attempted' = attempted /\ failed' = failed /\ status' = "running"

\* C5: the database step is attempted iff a valid db is configured, scan_pvs
\* and elog iff a valid (string) hutch is; a step whose condition is false is
\* passed over, neither attempted nor logged as failed.
C5_ConditionalSteps ==
    /\ [][/\ AttemptedIff("database", ValidDb(conf))
          /\ AttemptedIff("scan_pvs", ValidHutch(conf))
          /\ AttemptedIff("elog", ValidHutch(conf))]_vars
    /\ [](/\ "database" \in Range(attempted) \cup failed => ValidDb(conf)
          /\ "scan_pvs" \in Range(attempted) \cup failed => ValidHutch(conf)
          /\ "elog" \in Range(attempted) \cup failed => ValidHutch(conf))

C5_Witness ==
    /\ status = "returned"
    /\ ~ValidHutch(conf)
    /\ "database" \in Range(attempted)
    /\ "scan_pvs" \notin Range(attempted)
    /\ "elog" \notin Range(attempted)
    /\ "lcls PVs" \in Range(attempted)

\* the operator was asked in this step
Prompted == Len(user'.prompts) = Len(user.prompts) + 1

LastAnswer == user'.answers[Len(user'.answers)]

\* C6 as stated: any answer other than 'y' or the empty one ends the process.
C6_AnyOtherAnswerExits ==
    [][(Prompted /\ LastAnswer \notin {"y", ""}) => status' = "exited"]_vars

\* C6, amended: the answer is lower-cased first.  An answer whose lower case
\* is neither 'y' nor empty ends the process with a non-zero status and no
\* namespace is returned; any other answer (so 'Y' too) goes on with the next
\* module, and the failed module gives no names.
C6_PromptOnFailedModule ==
    /\ [][Prompted =>
            IF Lower(LastAnswer) \notin {"y", ""}
            THEN /\ status' = "exited"
                 /\ user'.exit_code # 0
                 /\ pc' = "done"
            ELSE /\ status' = "running"
                 /\ pc' = "user module"
                 /\ user'.i = user.i + 1
                 /\ user'.objs = user.objs
                 /\ ns' = ns]_vars
    /\ [][status = "exited" => status' = "exited"]_vars
    /\ [](\A m \in Range(user.prompts) : ModuleNames(m) \cap user.objs = {})

C6_Witness ==
    /\ user.prompts = <<"mod1">>
    /\ user.answers = <<"Y">>
    /\ user.objs = ModuleNames("mod2")
    /\ pc = "experiment file"
    /\ DOMAIN ns \cap (ModuleNames("mod1") \cup ModuleNames("mod2"))
           = ModuleNames("mod2")


-----------------------------------------------------------------------------
(* The filter's claims, checked under SpecFilter *)

\* what filter() would do with record r in the current state
Call(r) == FilterCall(flt, [counts |-> counts, noisy |-> noisy_loggers], r)

\* the level of a record after an object's INFO is counted as DEBUG
LevelAfterDemotion(r) == IF r.levelno = INFO THEN DEBUG ELSE r.levelno

CarriesObjectName(r) == r.ophyd_object_name \in ObjectNames

\* C7: a record with an ophyd object name passes the visibility test iff
\* (its level after the INFO-to-DEBUG demotion is at least the all-sources
\* cut-off, or the object is one of the focused ones) and the object name is
\* not in the blacklist.
C7_ObjectRecordVisibility ==
    \A r \in Records :
        CarriesObjectName(r) =>
            (Call(r).out.should_show <=>
                /\ \/ LevelAfterDemotion(r) >= flt.whitelist_all_levelno
                   \/ r.ophyd_object_name \in flt.objects
                /\ r.ophyd_object_name \notin flt.blacklist)

C7_Witness ==
    /\ out.called
    /\ CarriesObjectName(out.given)
    /\ out.given.levelno = INFO
    /\ flt.whitelist_all_levelno = WARNING
    /\ out.given.ophyd_object_name \in flt.objects
    /\ out.should_show

\* C8: a record without an ophyd object name passes the visibility test iff
\* allow_other_messages is true and the name of the record's logger is not in
\* the blacklist.
C8_OtherRecordVisibility ==
    (out.called /\ ~CarriesObjectName(out.given)) =>
        (out.should_show <=>
            (flt.allow_other_messages /\ out.given.name \notin flt.blacklist))

\* C9: filter() rewrites levelno and levelname of an object's INFO record to
\* DEBUG before the visibility test, so that the record is hidden when the
\* object is not focused and the cut-off is above DEBUG; a record of another
\* level, or without an object name, leaves filter() as it came.
C9_InfoDemotedToDebug ==
    \A r \in Records :
        IF CarriesObjectName(r) /\ r.levelno = INFO
        THEN /\ Call(r).rec.levelno = DEBUG
             /\ Call(r).rec.levelname = "DEBUG"
             /\ Call(r).rec.name = r.name
             /\ Call(r).rec.ophyd_object_name = r.ophyd_object_name
             /\ (r.ophyd_object_name \notin flt.objects
                   /\ flt.whitelist_all_levelno > DEBUG)
                    => (~Call(r).out.should_show /\ ~Call(r).out.result)
        ELSE Call(r).rec = r

C9_Witness ==
    /\ out.called
    /\ CarriesObjectName(out.given)
    /\ out.given.levelno = INFO
    /\ out.given.levelname = "INFO"
    /\ rec.levelno = DEBUG
    /\ rec.levelname = "DEBUG"
    /\ out.given.ophyd_object_name \notin flt.blacklist
    /\ ~out.result

\* the name filter() files the record under
NameOf(r) == IF CarriesObjectName(r) THEN r.ophyd_object_name ELSE r.name

Ticked == flt'.ticks = flt.ticks + 1

\* the sources whose count of some window is over the filter's threshold of
\* that window, the threshold not being 0
OverSomeThreshold ==
    {n \in Sources :
        \/ counts.s1[n] > flt.noisy_threshold_1s /\ flt.noisy_threshold_1s # 0
        \/ counts.s10[n] > flt.noisy_threshold_10s /\ flt.noisy_threshold_10s # 0
        \/ counts.s60[n] > flt.noisy_threshold_60s /\ flt.noisy_threshold_60s # 0}

\* C11: one tick adds to the noisy set exactly the sources that are not in
\* the whitelist and whose 1 s, 10 s or 60 s count is then greater than the
\* filter's threshold of that window, a threshold of 0 counting for nothing;
\* a whitelisted source is never in the noisy set, and what filter() returns
\* for its records is what the visibility test says.
C11_TickFlagsNoisySources ==
    /\ [][Ticked =>
            DOMAIN noisy_loggers' =
                DOMAIN noisy_loggers \cup (OverSomeThreshold \ flt.whitelist)]_vars
    /\ [](\A n \in flt.whitelist : n \notin DOMAIN noisy_loggers)
    /\ [](\A r \in Records :
              NameOf(r) \in flt.whitelist =>
                  Call(r).out.result = Call(r).out.should_show)

C11_Witness ==
    /\ flt.ticks > 0
    /\ flt.whitelist = {"lg"}
    /\ counts.s60["lg"] > flt.noisy_threshold_60s
    /\ flt.noisy_threshold_60s > 0
    /\ DOMAIN noisy_loggers = {"a"}
    /\ out.name = "lg"
    /\ out.result

\* C12: each threshold passed to the constructor governs its own window: a
\* tick flags every source, not whitelisted, whose 60 s count is over the
\* noisy_threshold_60s that was passed (when that is not 0), and flags a
\* source only for a count over the passed threshold of the count's window.
C12_ThresholdsAsPassed ==
    [][Ticked =>
         \A n \in Sources \ (flt.whitelist \cup DOMAIN noisy_loggers) :
            n \in DOMAIN noisy_loggers'
               <=> \/ counts.s1[n] > flt.args[1] /\ flt.args[1] # 0
                   \/ counts.s10[n] > flt.args[2] /\ flt.args[2] # 0
                   \/ counts.s60[n] > flt.args[3] /\ flt.args[3] # 0]_vars


-----------------------------------------------------------------------------
(* The claims about log_objects, checked under SpecFocus *)

\* the console shows a DEBUG record of object x
ConsoleShowsDebugOf(x) == Delivered(handlers, ObjectRecord(x, DEBUG)).console

\* the last call was log_objects(..., level="DEBUG") with the console included
FocusedAtDebug ==
    /\ lastcall.op = "log_objects"
    /\ lastcall.level = DEBUG
    /\ lastcall.console

Notices(call, kind, x) ==
    Cardinality({i \in DOMAIN call.notices :
                    call.notices[i].kind = kind /\ call.notices[i].obj = x})

\* the objects focused, before the step, on a filter the call sets
FocusedBefore(console) ==
    {x \in FocusNames :
        \E h \in {"console", "debug"} :
            /\ ~(handlers[h].stream /\ ~console)
            /\ x \in handlers[h].flt.objects}

C15_FocusLevelIsMinimum ==
    \A x \in handlers.console.flt.objects, l \in {DEBUG, INFO, WARNING} :
        ShouldShow(handlers.console.flt, ObjectRecord(x, l))
            <=> l >= handlers.console.flt.levelno

-----------------------------------------------------------------------------
(* cam_load's claims, checked under SpecCam *)

\* the lines C16 is about: detector lines, good and bad, and no include
DetectorLines ==
    {LineP1, LineP2, LineQ, LineBadType, LineNoPv, LineNoName, LineShort,
     LineDown}

\* a line build_cam makes a detector of
WellFormed(raw) ==
    LET parts == Parts(raw)
    IN /\ Len(parts) >= 4
       /\ StartsWith(parts[1], sGE)
       /\ parts[2] # <<>>
       /\ parts[4] # <<>>
       /\ get_det_prefix(parts[2]) \notin IocDown

\* the indices of the well-formed lines of a file
WellFormedIn(lines) == {i \in 1..Len(lines) : WellFormed(lines[i])}

\* C16: read_camviewer_cfg on a file of detector lines, some of them of an
\* unsupported type, without pv or name, too short or of a failing device,
\* raises nothing and returns one entry for each well-formed line.  The
\* formula takes the reading most favourable to the code: the machine has
\* the processors the thread pool needs, and no two well-formed lines of the
\* file have the same prefix.
C16_PerLineFailuresContained ==
    LET lines == files[cam.filename]
        good == WellFormedIn(lines)
    IN (/\ cam.op = "read_camviewer_cfg"
        /\ cpu_count > 1
        /\ \A i \in 1..Len(lines) : lines[i] \in DetectorLines
        /\ \A i, j \in good :
              i # j => get_det_prefix(Parts(lines[i])[2])
                          # get_det_prefix(Parts(lines[j])[2]))
       => /\ cam.raised = "None"
          /\ Cardinality(DOMAIN cam.objs) = Cardinality(good)

\* the prefix interpret_lines files an entry of its result under
PrefixOf(parts) == get_det_prefix(parts[2])

\* Every detector line met when the lines are read in order, the lines of an
\* included file at the place of the include line.
RECURSIVE Traversal(_, _, _)
Traversal(fs, lines, depth) ==
    IF lines = <<>> \/ depth > RecursionLimit THEN <<>>
    ELSE LET line == Strip(Head(lines))
             parts == Parts(Head(lines))
             words == Split(parts[1], " ")
             here ==
                IF line = <<>> \/ line[1] = "#" THEN <<>>
                ELSE IF StartsWith(parts[1], sInclude)
                THEN IF Len(words) >= 2 /\ words[2] \in DOMAIN fs
                     THEN Traversal(fs, fs[words[2]], depth + 1)
                     ELSE <<>>
                ELSE IF Len(parts) > 1 THEN <<parts>>
                ELSE <<>>
         IN here \o Traversal(fs, Tail(lines), depth)

\* the entries of a list that no earlier entry has the prefix of
RECURSIVE FirstOfEachPrefix(_, _)
FirstOfEachPrefix(entries, n) ==
    IF n = 0 THEN <<>>
    ELSE IF \E j \in 1..(n - 1) : PrefixOf(entries[j]) = PrefixOf(entries[n])
    THEN FirstOfEachPrefix(entries, n - 1)
    ELSE Append(FirstOfEachPrefix(entries, n - 1), entries[n])

\* C17: the list interpret_lines returns, over a file and the files it
\* includes, has no two entries of the same prefix, and of the lines of one
\* prefix it keeps the one met first when includes are expanded in place.
C17_FirstOfEachPrefixKept ==
    (cam.op # "none" /\ cam.raised = "None") =>
        LET all == Traversal(files, files[cam.filename], 1)
        IN /\ \A i, j \in 1..Len(cam.info) :
                 i # j => PrefixOf(cam.info[i]) # PrefixOf(cam.info[j])
           /\ cam.info = FirstOfEachPrefix(all, Len(all))

\* a file and the file it includes hold lines of one prefix: one is dropped,
\* and the included one is the one kept
C17_Witness ==
    /\ cam.op = "interpret_lines"
    /\ cam.raised = "None"
    /\ cam.filename = FileF
    /\ files[FileF] = <<LineIncG, LineP1>>
    /\ files[FileG] = <<LineP2>>
    /\ cam.info = <<Parts(LineP2)>>

\* the files an include line of the file names
Included(fs, filename) ==
    {Split(Parts(fs[filename][i])[1], " ")[2] :
        i \in {k \in 1..Len(fs[filename]) :
                  /\ Strip(fs[filename][k]) # <<>>
                  /\ StartsWith(Parts(fs[filename][k])[1], sInclude)
                  /\ Len(Split(Parts(fs[filename][k])[1], " ")) >= 2}}

\* the files reached from a set of files by at most n include lines
RECURSIVE Reached(_, _, _)
Reached(fs, S, n) ==
    IF n = 0 THEN S
    ELSE Reached(fs, S \cup UNION {Included(fs, m) : m \in S \cap DOMAIN fs},
                 n - 1)

\* the include chain of the file comes back to a file it went through, and
\* every file it names is there
SelfReferential(fs, filename) ==
    LET chain == Reached(fs, {filename}, Cardinality(DOMAIN fs))
    IN /\ chain \subseteq DOMAIN fs
       /\ \E m \in chain :
             m \in Reached(fs, Included(fs, m), Cardinality(DOMAIN fs))

\* C18: parsing a file whose include chain is self-referential, all files of
\* the chain being there, ends without an exception and returns the
\* detectors of the chain, each prefix once.
C18_SelfIncludeTerminates ==
    (cam.op # "none" /\ SelfReferential(files, cam.filename)) =>
        /\ cam.raised = "None"
        /\ \A i, j \in 1..Len(cam.info) :
              i # j => PrefixOf(cam.info[i]) # PrefixOf(cam.info[j])

\* a line of a supported type with the fields build_cam asks for, whether
\* or not its device can be built
Supported(raw) ==
    LET parts == Parts(raw)
    IN /\ Len(parts) >= 4
       /\ StartsWith(parts[1], sGE)
       /\ parts[2] # <<>>
       /\ parts[4] # <<>>

\* C29: of a file of detector lines, a well-formed line of a supported type
\* is missing from what the parser returns only when an earlier well-formed
\* line of a supported type has the same detector prefix.
C29_DroppedOnlyBehindValidLine ==
    LET lines == files[cam.filename]
    IN (/\ cam.op # "none"
        /\ cam.raised = "None"
        /\ \A i \in 1..Len(lines) : lines[i] \in DetectorLines)
       => \A i \in 1..Len(lines) :
             (/\ Supported(lines[i])
              /\ \A k \in 1..Len(cam.info) : cam.info[k] # Parts(lines[i]))
             => \E j \in 1..(i - 1) :
                   /\ Supported(lines[j])
                   /\ PrefixOf(Parts(lines[j])) = PrefixOf(Parts(lines[i]))

-----------------------------------------------------------------------------
(* The run wrappers' claim, checked under SpecWrap *)

\* what the wrapper call of this step added to the log
NewCalls == SubSeq(re_log', Len(re_log) + 1, Len(re_log'))

\* C19: a wrapped plan hands its plan to the RunEngine only when the engine
\* is idle.  Called while the engine is running it raises and neither stops
\* nor starts anything; called while the engine is neither running nor idle
\* it calls RE.stop() first and then RE(plan).
C19_PlanHandedToIdleEngine ==
    [][re_log' # re_log =>
          /\ \A i \in 1..Len(NewCalls) :
                NewCalls[i].op = "RE" => NewCalls[i].state = "idle"
          /\ re_state = "running" =>
                /\ NewCalls = <<[op |-> "raise", state |-> "running"]>>
                /\ re_state' = re_state
          /\ re_state = "idle" =>
                /\ NewCalls = <<[op |-> "RE", state |-> "idle"]>>
                /\ re_state' = "running"
          /\ re_state \notin {"running", "idle"} =>
                /\ Len(NewCalls) = 2
                /\ NewCalls[1].op = "stop"
                /\ NewCalls[2] = [op |-> "RE", state |-> "idle"]
                /\ re_state' = "running"]_vars

\* a wrapped plan was called on a paused engine, and one from inside a plan
C19_Witness ==
    /\ \E i \in 1..(Len(re_log) - 1) :
          /\ re_log[i] = [op |-> "stop", state |-> "paused"]
          /\ re_log[i + 1].op = "RE"
    /\ \E i \in 1..Len(re_log) : re_log[i].op = "raise"

-----------------------------------------------------------------------------
(* The session timer's claim, checked under SpecTimer *)

\* the last cell event, or the start of the session when there was none
LastEvent == IF session.events = 1 THEN timer.last_active_time ELSE StartTime

\* C20: the watchdog closes the session only when no cell is executing and
\* at least the configured maximum idle time (the value given to
\* configure_timeout, 172800 s without one) has passed since the last
\* pre- or post-execution event.
C20_ExitOnlyAfterConfiguredIdle ==
    session.exited =>
        /\ ~timer.user_active
        /\ now - LastEvent >= max_idle_time

-----------------------------------------------------------------------------
(* The experiment name's claim, checked under SpecLoad *)

\* C21: the experiment name works with or without the hutch name.  Once
\* load_conf has derived the two names for hutch h, the full name is h
\* followed by the raw name, whatever the experiment string was; given as e
\* or as h followed by e, the pair is (h followed by e, e).
C21_FullNameIsHutchPlusRaw ==
    (/\ loc.hutch # None
     /\ loc.experiment # None
     /\ loc.full_expname # <<>>)
        => loc.full_expname = loc.hutch.v \o loc.raw_expname

-----------------------------------------------------------------------------
(* debug_context's claim, checked under SpecDebug *)

\* C22: when the block of debug_context (or the function debug_wrapper runs)
\* is entered the console handler's level becomes DEBUG, and when the block
\* is left the level is the one the handler had before the block was entered.
C22_LevelRestoredOnLeave ==
    [][/\ (~dctx.inside /\ dctx'.inside)
            => handlers'.console.level = DEBUG
       /\ (dctx.inside /\ ~dctx'.inside)
            => handlers'.console.level = dctx.old_level]_vars

-----------------------------------------------------------------------------
(* More claims of the filter, checked under SpecFilter *)

\* filter() ran in this step: the tick did not, and out is the call's
Filtered == flt'.ticks = flt.ticks /\ out'.called

\* C23: filter() adds one to the source's 1 s, 10 s and 60 s counters for a
\* record that passes the visibility test, also when it then suppresses the
\* record as noisy, and leaves the three counters as they are for a record
\* that fails the visibility test.  No other counter changes.
C23_CountsEveryVisibleRecord ==
    [][Filtered =>
          LET n == out'.name
              by == IF out'.should_show THEN 1 ELSE 0
          IN  \A w \in {"s1", "s10", "s60"} :
                 /\ counts'[w][n] = counts[w][n] + by
                 /\ \A m \in Sources \ {n} : counts'[w][m] = counts[w][m]]_vars

\* a record that passed the visibility test was suppressed as noisy, and is
\* in the counters since the last tick
C23_Witness ==
    /\ out.called
    /\ out.should_show
    /\ out.is_noisy
    /\ ~out.result
    /\ counts.s1[out.name] = 1

\* C24: the hush message is emitted at most once for a source: a source in
\* the noisy set is not announced again by a later tick that finds it over a
\* threshold.
C24_HushedOncePerSource ==
    \A i, j \in 1..Len(emitted) :
        i # j => emitted[i].about # emitted[j].about

\* The last record was of a flagged source and was counted, a tick has run
\* since and found the source over a threshold, and there is still one
\* message about it.
C24_Witness ==
    /\ out.called
    /\ out.should_show
    /\ out.is_noisy
    /\ counts.s1[out.name] = 0
    /\ out.name \in OverSomeThreshold
    /\ Cardinality({i \in 1..Len(emitted) : emitted[i].about = out.name}) = 1

\* C27: neither filter() nor the tick takes a source out of the noisy set,
\* and the records of a source in it, neither whitelisted nor focused, are
\* suppressed whatever its counts have fallen to.
C27_NoisyStaysNoisy ==
    /\ [][DOMAIN noisy_loggers \subseteq DOMAIN noisy_loggers']_vars
    /\ [](\A r \in Records :
              (/\ SourceName(r) \in DOMAIN noisy_loggers
               /\ SourceName(r) \notin flt.whitelist
               /\ SourceName(r) \notin flt.objects)
                  => ~Call(r).out.result)

\* two sources are flagged, one of them is at no threshold any more, and a
\* record of it has been suppressed since
C27_Witness ==
    /\ Cardinality(DOMAIN noisy_loggers) >= 2
    /\ \E n \in DOMAIN noisy_loggers :
          /\ n \notin OverSomeThreshold
          /\ out.name = n
          /\ out.is_noisy
          /\ ~out.result

-----------------------------------------------------------------------------
(* The claims about the windows and the hush messages, under SpecWindows *)

\* C25: counting ticks from the creation of the filter, every tick clears
\* the 1 s counters, the ticks whose number is a multiple of 10, and no
\* others, clear the 10 s counters, the ticks whose number is a multiple of
\* 60, and no others, clear the 60 s counters; a counter that is not cleared
\* by the tick keeps what was counted, and filter() lowers no counter.
C25_WindowsClearedOnSchedule ==
    [][/\ Ticked =>
            LET k == flt'.ticks
            IN  \A n \in Sources :
                   /\ counts'.s1[n] = 0
                   /\ IF k % 10 = 0 THEN counts'.s10[n] = 0
                      ELSE counts'.s10[n] >= counts.s10[n]
                   /\ IF k % 60 = 0 THEN counts'.s60[n] = 0
                      ELSE counts'.s60[n] >= counts.s60[n]
       /\ ~Ticked =>
            \A n \in Sources, w \in {"s1", "s10", "s60"} :
                counts'[w][n] >= counts[w][n]]_vars

\* tick 60 has cleared the 60 s counter the last record was counted in, and
\* tick 59 had left it
C25_Witness ==
    /\ flt.ticks = 60
    /\ out.called
    /\ out.should_show
    /\ counts.s60[out.name] = 0
    /\ Len(emitted) = 1
    /\ emitted[1].about = out.name

\* C26: with allow_other_messages true and an empty blacklist, the hush
\* message a tick emits for a source it adds to the noisy set passes the
\* filter, whatever was logged and hushed before.
C26_HushMessageShown ==
    (flt.allow_other_messages /\ flt.blacklist = {}) =>
        \A i \in 1..Len(emitted) : emitted[i].shown

\* no logging thread is inside filter()
Quiescent == \A t \in LogThreads : lthreads[t].pc = "idle"

\* C28: with the counter thread ticking while logging threads are inside
\* filter(), whenever no filter() call is under way each rolling counter of
\* a source equals the number of the source's records that passed the
\* visibility test since the window was last cleared: at least those that
\* passed after the clear (no increment is lost), at most those and the
\* ones that were under way at the clear (no earlier count reappears).
C28_CountersExactUnderInterleaving ==
    Quiescent =>
        \A w \in 1..3 : \A n \in Sources :
            /\ since.lo[w][n] <= counts[Windows[w]][n]
            /\ counts[Windows[w]][n] <= since.hi[w][n]

-----------------------------------------------------------------------------
(* The arch file's claim, checked under SpecArch *)

\* an alias or a PV as check_for_duplicates compares it
Clean(x) == StrRemoveChar(StrRemoveChar(x, " "), "\n")

\* no two pairs of the data have the same PV, and no two the same alias
NoDuplicates(data) ==
    \A i, j \in 1..Len(Zip(data)) :
        i # j => /\ Clean(Zip(data)[i][2]) # Clean(Zip(data)[j][2])
                 /\ Clean(Zip(data)[i][1]) # Clean(Zip(data)[j][1])

\* one PV of the data is there under two aliases
PVWithTwoAliases(data) ==
    \E i, j \in 1..Len(Zip(data)) :
        /\ Clean(Zip(data)[i][2]) = Clean(Zip(data)[j][2])
        /\ Clean(Zip(data)[i][1]) # Clean(Zip(data)[j][1])

\* no alias of the data is there twice
AliasesDiffer(data) ==
    \A i, j \in 1..Len(Zip(data)) :
        i # j => Clean(Zip(data)[i][1]) # Clean(Zip(data)[j][1])

\* C30: check_for_duplicates on a questionnaire without duplicates and an
\* arch file without duplicates raises, or returns a list with no PV under
\* two aliases and no alias twice; on a questionnaire that has one PV under
\* two aliases it raises ValueError.
C30_MergedListHasNoDuplicates ==
    /\ (/\ arch.op = "check_for_duplicates"
        /\ NoDuplicates(arch.qs_data)
        /\ NoDuplicates(arch.af_data))
       => \/ arch.raised # "None"
          \/ LET ret == Zip(arch.returned)
             IN \A i, j \in 1..Len(ret) :
                   i # j => ret[i][1] # ret[j][1] /\ ret[i][2] # ret[j][2]
    /\ (/\ arch.op = "check_for_duplicates"
        /\ AliasesDiffer(arch.qs_data)
        /\ PVWithTwoAliases(arch.qs_data))
       => arch.raised = "ValueError"

=============================================================================
